---- MODULE Spec2Model ----
(***************************************************************************)
(* Model of spikingjelly/activation_based/neuron.py: the charge / fire /   *)
(* reset state machine of the spiking neurons, its single-step and         *)
(* multi-step drivers and the evaluation-mode fused functions.             *)
(*                                                                         *)
(* Numbers.  A tensor element is an IEEE float.  It is modelled as an      *)
(* integer count of 2^-10 units (Scale units = 1.0) with round-to-nearest, *)
(* ties-to-even: + and - are exact on this grid, * and / round to it.      *)
(* Python float scalars are doubles; an expression of scalars only, such   *)
(* as 1. - 1. / tau, is rounded once, when it meets a tensor.  The grid    *)
(* keeps what matters of float arithmetic here: two expressions that are   *)
(* equal over the reals need not round to the same element.  With tau = 3, *)
(* v = 0.5: v * (1. - 1. / tau) is 342 units and v - v / tau is 341, as    *)
(* binary32 gives 0.33333334 and 0.3333333.                                *)
(*                                                                         *)
(* Tensors.  A tensor is a sequence of NumEl elements.  A memory such as v *)
(* is a record [isTensor, d]: the Python float placeholder is              *)
(* [isTensor |-> FALSE, d |-> <<value>>], a tensor is                      *)
(* [isTensor |-> TRUE, d |-> <<e1, ..., eN>>].                             *)
(***************************************************************************)
EXTENDS Integers, Sequences, FiniteSets, TLC

\* ---------------------------------------------------------------- bounds
NumEl == 2
MaxT == 4
MaxCalls == 2

\* ------------------------------------------------------------ arithmetic
Scale == 1024

Abs(a) == IF a < 0 THEN -a ELSE a

\* nearest integer to a / b (b > 0), ties to even: the rounding of one float operation
RoundNearestEven(a, b) ==
    LET q == a \div b
        r == a % b
    IN  IF 2 * r < b THEN q
        ELSE IF 2 * r > b THEN q + 1
        ELSE IF q % 2 = 0 THEN q ELSE q + 1

\* a * b and a / b on tensor elements
Mul(a, b) == RoundNearestEven(a * b, Scale)
Div(a, b) == IF b > 0 THEN RoundNearestEven(a * Scale, b) ELSE RoundNearestEven((0 - a) * Scale, 0 - b)

\* the Python scalar expression 1. - 1. / tau as it reaches a tensor operation
OneMinusInvTau(tau) == RoundNearestEven(Scale * (tau - Scale), tau)
\* the Python scalar expression 1. / tau_w as it reaches a tensor operation
InvScalar(tau) == RoundNearestEven(Scale * Scale, tau)

One == Scale
\* decimal literal n / 1000 as a float
Lit(n) == RoundNearestEven(n * Scale, 1000)

\* --------------------------------------------------------------- tensors
Idx == 1..NumEl
Placeholder(val) == [isTensor |-> FALSE, d |-> <<val>>]
AsTensor(seq) == [isTensor |-> TRUE, d |-> seq]
\* element i of a memory, a float placeholder broadcasting against any shape
At(m, i) == IF m.isTensor THEN m.d[i] ELSE m.d[1]
\* torch.full_like(x.data, fill)
full_like(x, fill) == AsTensor([i \in DOMAIN x |-> fill])
zeros_like(x) == [i \in DOMAIN x |-> 0]

\* forward value of the surrogate function: the Heaviside step, 1 where x >= 0
heaviside(x) == IF x >= 0 THEN One ELSE 0

\* elementwise helper: the tensor whose element i is f(i)
Elementwise(f(_)) == [i \in Idx |-> f(i)]

\* ------------------------------------------------- BaseNode: pure resets
\* faulty variant of jit_hard_reset: the fired element keeps its potential scaled by spike
jit_hard_reset_mut(v, spike, v_reset) ==
    Elementwise(LAMBDA i : Mul(One - spike[i], v[i]) + Mul(spike[i], v[i]))
\* BaseNode.jit_hard_reset: v = (1. - spike) * v + spike * v_reset
jit_hard_reset(v, spike, v_reset) ==
    Elementwise(LAMBDA i : Mul(One - spike[i], v[i]) + Mul(spike[i], v_reset))

\* faulty variant of jit_soft_reset: the threshold is subtracted whether or not the element fired
jit_soft_reset_mut(v, spike, v_threshold) ==
    Elementwise(LAMBDA i : v[i] - v_threshold)
\* BaseNode.jit_soft_reset: v = v - spike * v_threshold
jit_soft_reset(v, spike, v_threshold) ==
    Elementwise(LAMBDA i : v[i] - Mul(spike[i], v_threshold))

\* ------------------------------------------------ LIFNode: pure charges
\* faulty variant of neuronal_charge_decay_input_reset0: the input decays, the potential does not
neuronal_charge_decay_input_reset0_mut(x, v, tau) ==
    Elementwise(LAMBDA i : v[i] + Div(x[i], tau))
\* LIFNode.neuronal_charge_decay_input_reset0: v = v + (x - v) / tau
neuronal_charge_decay_input_reset0(x, v, tau) ==
    Elementwise(LAMBDA i : v[i] + Div(x[i] - v[i], tau))
\* LIFNode.neuronal_charge_decay_input: v = v + (x - (v - v_reset)) / tau
neuronal_charge_decay_input(x, v, v_reset, tau) ==
    Elementwise(LAMBDA i : v[i] + Div(x[i] - (v[i] - v_reset), tau))
\* LIFNode.neuronal_charge_no_decay_input_reset0: v = v * (1. - 1. / tau) + x
neuronal_charge_no_decay_input_reset0(x, v, tau) ==
    Elementwise(LAMBDA i : Mul(v[i], OneMinusInvTau(tau)) + x[i])
\* LIFNode.neuronal_charge_no_decay_input: v = v - (v - v_reset) / tau + x
neuronal_charge_no_decay_input(x, v, v_reset, tau) ==
    Elementwise(LAMBDA i : (v[i] - Div(v[i] - v_reset, tau)) + x[i])

\* faulty variant of (v >= v_threshold).to(x): the comparison is strict, an element at the
\* threshold does not fire
GeThreshold_mut(v, v_threshold) == Elementwise(LAMBDA i : IF v[i] > v_threshold THEN One ELSE 0)
\* (v >= v_threshold).to(x)
GeThreshold(v, v_threshold) == Elementwise(LAMBDA i : IF v[i] >= v_threshold THEN One ELSE 0)

\* ------------------------------- IFNode: evaluation-mode fused single step
\* The functions return (spike, v); the record carries, beside them, h: the value of
\* the local v the comparison with v_threshold read.
\* IFNode.jit_eval_single_step_forward_hard_reset
IF_jit_eval_single_step_forward_hard_reset(x, v, v_threshold, v_reset) ==
    LET v1 == Elementwise(LAMBDA i : v[i] + x[i])
        spike == GeThreshold(v1, v_threshold)
        v2 == Elementwise(LAMBDA i : Mul(v_reset, spike[i]) + Mul(One - spike[i], v1[i]))
    IN  [spike |-> spike, v |-> v2, h |-> v1]
\* faulty variant of IFNode.jit_eval_single_step_forward_soft_reset: the threshold is
\* subtracted as often as it fits, so that the potential left is below the threshold
IF_jit_eval_single_step_forward_soft_reset_mut(x, v, v_threshold) ==
    LET v1 == Elementwise(LAMBDA i : v[i] + x[i])
        spike == GeThreshold(v1, v_threshold)
        v2 == Elementwise(LAMBDA i : IF spike[i] = One THEN v1[i] % v_threshold ELSE v1[i])
    IN  [spike |-> spike, v |-> v2, h |-> v1]
\* IFNode.jit_eval_single_step_forward_soft_reset
IF_jit_eval_single_step_forward_soft_reset(x, v, v_threshold) ==
    LET v1 == Elementwise(LAMBDA i : v[i] + x[i])
        spike == GeThreshold(v1, v_threshold)
        v2 == Elementwise(LAMBDA i : v1[i] - Mul(spike[i], v_threshold))
    IN  [spike |-> spike, v |-> v2, h |-> v1]

\* ------------------------------ LIFNode: evaluation-mode fused single step
\* LIFNode.jit_eval_single_step_forward_hard_reset_decay_input
jit_eval_single_step_forward_hard_reset_decay_input(x, v, v_threshold, v_reset, tau) ==
    LET v1 == Elementwise(LAMBDA i : v[i] + Div(x[i] - (v[i] - v_reset), tau))
        spike == GeThreshold(v1, v_threshold)
        v2 == Elementwise(LAMBDA i : Mul(v_reset, spike[i]) + Mul(One - spike[i], v1[i]))
    IN  [spike |-> spike, v |-> v2, h |-> v1]
\* LIFNode.jit_eval_single_step_forward_hard_reset_no_decay_input
jit_eval_single_step_forward_hard_reset_no_decay_input(x, v, v_threshold, v_reset, tau) ==
    LET v1 == Elementwise(LAMBDA i : (v[i] - Div(v[i] - v_reset, tau)) + x[i])
        spike == GeThreshold(v1, v_threshold)
        v2 == Elementwise(LAMBDA i : Mul(v_reset, spike[i]) + Mul(One - spike[i], v1[i]))
    IN  [spike |-> spike, v |-> v2, h |-> v1]
\* LIFNode.jit_eval_single_step_forward_soft_reset_decay_input
jit_eval_single_step_forward_soft_reset_decay_input(x, v, v_threshold, tau) ==
    LET v1 == Elementwise(LAMBDA i : v[i] + Div(x[i] - v[i], tau))
        spike == GeThreshold(v1, v_threshold)
        v2 == Elementwise(LAMBDA i : v1[i] - Mul(spike[i], v_threshold))
    IN  [spike |-> spike, v |-> v2, h |-> v1]
\* LIFNode.jit_eval_single_step_forward_soft_reset_no_decay_input
jit_eval_single_step_forward_soft_reset_no_decay_input(x, v, v_threshold, tau) ==
    LET v1 == Elementwise(LAMBDA i : Mul(v[i], OneMinusInvTau(tau)) + x[i])
        spike == GeThreshold(v1, v_threshold)
        v2 == Elementwise(LAMBDA i : v1[i] - Mul(spike[i], v_threshold))
    IN  [spike |-> spike, v |-> v2, h |-> v1]

\* ----------------------- IFNode, LIFNode: evaluation-mode fused multi step
\* The loop over t of the source is unrolled from the front: one pass of the loop
\* body on x_seq[1], then the same function on the rest of the sequence with the
\* potential the body left; spike_seq and v_seq are filled in step order.

RECURSIVE IF_jit_eval_multi_step_forward_hard_reset(_,_,_,_)
\* IFNode.jit_eval_multi_step_forward_hard_reset
IF_jit_eval_multi_step_forward_hard_reset(x_seq, v, v_threshold, v_reset) ==
    IF x_seq = <<>> THEN [spike_seq |-> <<>>, v |-> v]
    ELSE LET v1 == Elementwise(LAMBDA i : v[i] + x_seq[1][i])
             spike == GeThreshold(v1, v_threshold)
             v2 == Elementwise(LAMBDA i : Mul(v_reset, spike[i]) + Mul(One - spike[i], v1[i]))
             rest == IF_jit_eval_multi_step_forward_hard_reset(Tail(x_seq), v2, v_threshold, v_reset)
         IN  [spike_seq |-> <<spike>> \o rest.spike_seq, v |-> rest.v]

RECURSIVE IF_jit_eval_multi_step_forward_hard_reset_with_v_seq(_,_,_,_)
\* IFNode.jit_eval_multi_step_forward_hard_reset_with_v_seq
IF_jit_eval_multi_step_forward_hard_reset_with_v_seq(x_seq, v, v_threshold, v_reset) ==
    IF x_seq = <<>> THEN [spike_seq |-> <<>>, v |-> v, v_seq |-> <<>>]
    ELSE LET v1 == Elementwise(LAMBDA i : v[i] + x_seq[1][i])
             spike == GeThreshold(v1, v_threshold)
             v2 == Elementwise(LAMBDA i : Mul(v_reset, spike[i]) + Mul(One - spike[i], v1[i]))
             rest == IF_jit_eval_multi_step_forward_hard_reset_with_v_seq(Tail(x_seq), v2, v_threshold, v_reset)
         IN  [spike_seq |-> <<spike>> \o rest.spike_seq, v |-> rest.v,
              v_seq |-> <<v2>> \o rest.v_seq]

RECURSIVE IF_jit_eval_multi_step_forward_soft_reset(_,_,_)
\* IFNode.jit_eval_multi_step_forward_soft_reset
IF_jit_eval_multi_step_forward_soft_reset(x_seq, v, v_threshold) ==
    IF x_seq = <<>> THEN [spike_seq |-> <<>>, v |-> v]
    ELSE LET v1 == Elementwise(LAMBDA i : v[i] + x_seq[1][i])
             spike == GeThreshold(v1, v_threshold)
             v2 == Elementwise(LAMBDA i : v1[i] - Mul(spike[i], v_threshold))
             rest == IF_jit_eval_multi_step_forward_soft_reset(Tail(x_seq), v2, v_threshold)
         IN  [spike_seq |-> <<spike>> \o rest.spike_seq, v |-> rest.v]

RECURSIVE IF_jit_eval_multi_step_forward_soft_reset_with_v_seq(_,_,_)
\* IFNode.jit_eval_multi_step_forward_soft_reset_with_v_seq
IF_jit_eval_multi_step_forward_soft_reset_with_v_seq(x_seq, v, v_threshold) ==
    IF x_seq = <<>> THEN [spike_seq |-> <<>>, v |-> v, v_seq |-> <<>>]
    ELSE LET v1 == Elementwise(LAMBDA i : v[i] + x_seq[1][i])
             spike == GeThreshold(v1, v_threshold)
             v2 == Elementwise(LAMBDA i : v1[i] - Mul(spike[i], v_threshold))
             rest == IF_jit_eval_multi_step_forward_soft_reset_with_v_seq(Tail(x_seq), v2, v_threshold)
         IN  [spike_seq |-> <<spike>> \o rest.spike_seq, v |-> rest.v,
              v_seq |-> <<v2>> \o rest.v_seq]

RECURSIVE jit_eval_multi_step_forward_hard_reset_decay_input(_,_,_,_,_)
\* LIFNode.jit_eval_multi_step_forward_hard_reset_decay_input
jit_eval_multi_step_forward_hard_reset_decay_input(x_seq, v, v_threshold, v_reset, tau) ==
    IF x_seq = <<>> THEN [spike_seq |-> <<>>, v |-> v]
    ELSE LET v1 == Elementwise(LAMBDA i : v[i] + Div(x_seq[1][i] - (v[i] - v_reset), tau))
             spike == GeThreshold(v1, v_threshold)
             v2 == Elementwise(LAMBDA i : Mul(v_reset, spike[i]) + Mul(One - spike[i], v1[i]))
             rest == jit_eval_multi_step_forward_hard_reset_decay_input(Tail(x_seq), v2, v_threshold, v_reset, tau)
         IN  [spike_seq |-> <<spike>> \o rest.spike_seq, v |-> rest.v]

RECURSIVE jit_eval_multi_step_forward_hard_reset_decay_input_with_v_seq(_,_,_,_,_)
\* LIFNode.jit_eval_multi_step_forward_hard_reset_decay_input_with_v_seq
jit_eval_multi_step_forward_hard_reset_decay_input_with_v_seq(x_seq, v, v_threshold, v_reset, tau) ==
    IF x_seq = <<>> THEN [spike_seq |-> <<>>, v |-> v, v_seq |-> <<>>]
    ELSE LET v1 == Elementwise(LAMBDA i : v[i] + Div(x_seq[1][i] - (v[i] - v_reset), tau))
             spike == GeThreshold(v1, v_threshold)
             v2 == Elementwise(LAMBDA i : Mul(v_reset, spike[i]) + Mul(One - spike[i], v1[i]))
             rest == jit_eval_multi_step_forward_hard_reset_decay_input_with_v_seq(Tail(x_seq), v2, v_threshold, v_reset, tau)
         IN  [spike_seq |-> <<spike>> \o rest.spike_seq, v |-> rest.v,
              v_seq |-> <<v2>> \o rest.v_seq]

RECURSIVE jit_eval_multi_step_forward_hard_reset_no_decay_input(_,_,_,_,_)
\* LIFNode.jit_eval_multi_step_forward_hard_reset_no_decay_input
jit_eval_multi_step_forward_hard_reset_no_decay_input(x_seq, v, v_threshold, v_reset, tau) ==
    IF x_seq = <<>> THEN [spike_seq |-> <<>>, v |-> v]
    ELSE LET v1 == Elementwise(LAMBDA i : (v[i] - Div(v[i] - v_reset, tau)) + x_seq[1][i])
             spike == GeThreshold(v1, v_threshold)
             v2 == Elementwise(LAMBDA i : Mul(v_reset, spike[i]) + Mul(One - spike[i], v1[i]))
             rest == jit_eval_multi_step_forward_hard_reset_no_decay_input(Tail(x_seq), v2, v_threshold, v_reset, tau)
         IN  [spike_seq |-> <<spike>> \o rest.spike_seq, v |-> rest.v]

RECURSIVE jit_eval_multi_step_forward_hard_reset_no_decay_input_with_v_seq(_,_,_,_,_)
\* LIFNode.jit_eval_multi_step_forward_hard_reset_no_decay_input_with_v_seq
jit_eval_multi_step_forward_hard_reset_no_decay_input_with_v_seq(x_seq, v, v_threshold, v_reset, tau) ==
    IF x_seq = <<>> THEN [spike_seq |-> <<>>, v |-> v, v_seq |-> <<>>]
    ELSE LET v1 == Elementwise(LAMBDA i : (v[i] - Div(v[i] - v_reset, tau)) + x_seq[1][i])
             spike == GeThreshold(v1, v_threshold)
             v2 == Elementwise(LAMBDA i : Mul(v_reset, spike[i]) + Mul(One - spike[i], v1[i]))
             rest == jit_eval_multi_step_forward_hard_reset_no_decay_input_with_v_seq(Tail(x_seq), v2, v_threshold, v_reset, tau)
         IN  [spike_seq |-> <<spike>> \o rest.spike_seq, v |-> rest.v,
              v_seq |-> <<v2>> \o rest.v_seq]

RECURSIVE jit_eval_multi_step_forward_soft_reset_decay_input(_,_,_,_)
\* LIFNode.jit_eval_multi_step_forward_soft_reset_decay_input
jit_eval_multi_step_forward_soft_reset_decay_input(x_seq, v, v_threshold, tau) ==
    IF x_seq = <<>> THEN [spike_seq |-> <<>>, v |-> v]
    ELSE LET v1 == Elementwise(LAMBDA i : v[i] + Div(x_seq[1][i] - v[i], tau))
             spike == GeThreshold(v1, v_threshold)
             v2 == Elementwise(LAMBDA i : v1[i] - Mul(spike[i], v_threshold))
             rest == jit_eval_multi_step_forward_soft_reset_decay_input(Tail(x_seq), v2, v_threshold, tau)
         IN  [spike_seq |-> <<spike>> \o rest.spike_seq, v |-> rest.v]

RECURSIVE jit_eval_multi_step_forward_soft_reset_decay_input_with_v_seq(_,_,_,_)
\* LIFNode.jit_eval_multi_step_forward_soft_reset_decay_input_with_v_seq
jit_eval_multi_step_forward_soft_reset_decay_input_with_v_seq(x_seq, v, v_threshold, tau) ==
    IF x_seq = <<>> THEN [spike_seq |-> <<>>, v |-> v, v_seq |-> <<>>]
    ELSE LET v1 == Elementwise(LAMBDA i : v[i] + Div(x_seq[1][i] - v[i], tau))
             spike == GeThreshold(v1, v_threshold)
             v2 == Elementwise(LAMBDA i : v1[i] - Mul(spike[i], v_threshold))
             rest == jit_eval_multi_step_forward_soft_reset_decay_input_with_v_seq(Tail(x_seq), v2, v_threshold, tau)
         IN  [spike_seq |-> <<spike>> \o rest.spike_seq, v |-> rest.v,
              v_seq |-> <<v2>> \o rest.v_seq]

RECURSIVE jit_eval_multi_step_forward_soft_reset_no_decay_input(_,_,_,_)
\* LIFNode.jit_eval_multi_step_forward_soft_reset_no_decay_input
jit_eval_multi_step_forward_soft_reset_no_decay_input(x_seq, v, v_threshold, tau) ==
    IF x_seq = <<>> THEN [spike_seq |-> <<>>, v |-> v]
    ELSE LET v1 == Elementwise(LAMBDA i : Mul(v[i], OneMinusInvTau(tau)) + x_seq[1][i])
             spike == GeThreshold(v1, v_threshold)
             v2 == Elementwise(LAMBDA i : v1[i] - Mul(spike[i], v_threshold))
             rest == jit_eval_multi_step_forward_soft_reset_no_decay_input(Tail(x_seq), v2, v_threshold, tau)
         IN  [spike_seq |-> <<spike>> \o rest.spike_seq, v |-> rest.v]

RECURSIVE jit_eval_multi_step_forward_soft_reset_no_decay_input_with_v_seq(_,_,_,_)
\* LIFNode.jit_eval_multi_step_forward_soft_reset_no_decay_input_with_v_seq
jit_eval_multi_step_forward_soft_reset_no_decay_input_with_v_seq(x_seq, v, v_threshold, tau) ==
    IF x_seq = <<>> THEN [spike_seq |-> <<>>, v |-> v, v_seq |-> <<>>]
    ELSE LET v1 == Elementwise(LAMBDA i : Mul(v[i], OneMinusInvTau(tau)) + x_seq[1][i])
             spike == GeThreshold(v1, v_threshold)
             v2 == Elementwise(LAMBDA i : v1[i] - Mul(spike[i], v_threshold))
             rest == jit_eval_multi_step_forward_soft_reset_no_decay_input_with_v_seq(Tail(x_seq), v2, v_threshold, tau)
         IN  [spike_seq |-> <<spike>> \o rest.spike_seq, v |-> rest.v,
              v_seq |-> <<v2>> \o rest.v_seq]

\* ------------------------------------------------------ neuron instances
\* A configuration cfg is the record of constructor arguments of one neuron:
\*   kind          the class: "IF", "LIF", "KLIF", "Izhikevich", "CLIF", "QIF", "PLIF",
\*                 "MPBNLIF" (BaseNode subclasses), "SimpleIF", "SimpleLIF"
\*                 (SimpleBaseNode subclasses), "GatedLIF", "MaskedPSN"
\*   training      nn.Module.training
\*   soft          v_reset is None (soft reset); else v_reset is the reset voltage
\*   v_threshold, v_reset, tau, decay_input, store_v_seq, scale_reset, k, T
\* The memories of a neuron are the record self = [v, w, c, u, v_seq]; v_seq = <<>>
\* stands for None.  The backend is 'torch' in the state machine of this part; the
\* backends, the backward pass of the DSR neurons and their workers have state machines
\* of their own further down.
\*
\* A method returns [self, y, tr, raised]: the memories it leaves, the value it
\* returns, and the phases it executed, in order, as events
\*   [ph, t, of, vt]: phase ph ("mat", "charge", "fire", "reset") ran in step t of
\*   the call; of is the step whose spike a reset consumed (0: the initial zero
\*   spike); vt tells whether self.v was a tensor when the phase started.
\* The event of a call of neuronal_fire carries as well pre and post, the memories when
\* the method was entered and when it returned; they are <<>> in every other event.
Ev(ph, t, of, vt) == [ph |-> ph, t |-> t, of |-> of, vt |-> vt, pre |-> <<>>, post |-> <<>>]
FireEv(t, pre, post) ==
    [ph |-> "fire", t |-> t, of |-> t, vt |-> pre.v.isTensor, pre |-> pre, post |-> post]
\* A single-step method reports as well h, the potential its fire read.
Ret(self, y, tr) == [self |-> self, y |-> y, tr |-> tr, raised |-> FALSE, h |-> <<>>]
RetH(self, y, tr, h) == [self |-> self, y |-> y, tr |-> tr, raised |-> FALSE, h |-> h]

\* BaseNode.__init__, AdaptBaseNode.__init__, CLIFNode.__init__, SimpleBaseNode.__init__,
\* GatedLIFNode.__init__, MPBNBaseNode.__init__: the registered memories
w_rest == Lit(0)
InitMemories(cfg) ==
    [v |-> IF cfg.kind \in {"SimpleIF", "SimpleLIF", "GatedLIF"} THEN Placeholder(0)
           ELSE IF cfg.soft THEN Placeholder(0) ELSE Placeholder(cfg.v_reset),
     w |-> Placeholder(w_rest),
     c |-> Placeholder(0),
     u |-> Placeholder(0),
     vth |-> Placeholder(cfg.v_threshold),
     v_seq |-> <<>>]

\* faulty variant of v_float_to_tensor: refills v on every call, tensor or not
v_float_to_tensor_mut(self, x) ==
    [self EXCEPT !.v = full_like(x, self.v.d[1])]
\* BaseNode.v_float_to_tensor
v_float_to_tensor(self, x) ==
    IF ~self.v.isTensor THEN [self EXCEPT !.v = full_like(x, self.v.d[1])] ELSE self
\* AdaptBaseNode.w_float_to_tensor
w_float_to_tensor(self, x) ==
    IF ~self.w.isTensor THEN [self EXCEPT !.w = full_like(x, self.w.d[1])] ELSE self
\* CLIFNode.c_float_to_tensor
c_float_to_tensor(self, x) ==
    IF ~self.c.isTensor THEN [self EXCEPT !.c = full_like(x, self.c.d[1])] ELSE self
\* the "mat" event of a call of v_float_to_tensor that converts the placeholder
MatEv(self, t) == IF ~self.v.isTensor THEN <<Ev("mat", t, t, FALSE)>> ELSE <<>>

\* ------------------------------------------------------------- charges
\* faulty variant of IFNode.neuronal_charge: the input replaces the potential
IFNode_neuronal_charge_mut(cfg, self, x) ==
    [self EXCEPT !.v = AsTensor(Elementwise(LAMBDA i : x[i]))]
\* IFNode.neuronal_charge, SimpleIFNode.neuronal_charge: self.v = self.v + x
IFNode_neuronal_charge(cfg, self, x) ==
    [self EXCEPT !.v = AsTensor(Elementwise(LAMBDA i : At(self.v, i) + x[i]))]

\* SimpleLIFNode.neuronal_charge
SimpleLIFNode_neuronal_charge(cfg, self, x) ==
    [self EXCEPT !.v = AsTensor(Elementwise(LAMBDA i :
        IF cfg.decay_input
        THEN At(self.v, i) + Div((cfg.v_reset - At(self.v, i)) + x[i], cfg.tau)
        ELSE (At(self.v, i) + Div(cfg.v_reset - At(self.v, i), cfg.tau)) + x[i]))]

\* LIFNode.neuronal_charge
LIFNode_neuronal_charge(cfg, self, x) ==
    [self EXCEPT !.v = AsTensor(
        IF cfg.decay_input
        THEN IF cfg.soft \/ cfg.v_reset = 0
             THEN neuronal_charge_decay_input_reset0(x, self.v.d, cfg.tau)
             ELSE neuronal_charge_decay_input(x, self.v.d, cfg.v_reset, cfg.tau)
        ELSE IF cfg.soft \/ cfg.v_reset = 0
             THEN neuronal_charge_no_decay_input_reset0(x, self.v.d, cfg.tau)
             ELSE neuronal_charge_no_decay_input(x, self.v.d, cfg.v_reset, cfg.tau))]

\* torch.relu_
relu(a) == IF a > 0 THEN a ELSE 0
\* KLIFNode.neuronal_charge_decay_input
KLIF_neuronal_charge_decay_input(x, v, v_reset, tau, k) ==
    Elementwise(LAMBDA i : relu(Mul(k, v[i] + Div(x[i] - (v[i] - v_reset), tau))))
\* KLIFNode.neuronal_charge_no_decay_input
KLIF_neuronal_charge_no_decay_input(x, v, v_reset, tau, k) ==
    Elementwise(LAMBDA i : relu(Mul(k, (v[i] - Div(v[i] - v_reset, tau)) + x[i])))
\* KLIFNode.neuronal_charge
KLIFNode_neuronal_charge(cfg, self, x) ==
    LET v_reset == IF cfg.soft THEN 0 ELSE cfg.v_reset
    IN  [self EXCEPT !.v = AsTensor(
            IF cfg.decay_input
            THEN KLIF_neuronal_charge_decay_input(x, self.v.d, v_reset, cfg.tau, cfg.k)
            ELSE KLIF_neuronal_charge_no_decay_input(x, self.v.d, v_reset, cfg.tau, cfg.k))]

\* IzhikevichNode.__init__ / AdaptBaseNode.__init__: the parameters of the adaptive neuron
v_rest == Lit(-100)
v_c == Lit(800)
a0 == Lit(1000)
tau_w == Lit(2000)
a == Lit(500)
b == Lit(250)
\* IzhikevichNode.neuronal_charge
IzhikevichNode_neuronal_charge(cfg, self, x) ==
    [self EXCEPT !.v = AsTensor(Elementwise(LAMBDA i :
        At(self.v, i) + Div((x[i] + Mul(Mul(a0, At(self.v, i) - v_rest), At(self.v, i) - v_c))
                             - At(self.w, i), cfg.tau)))]
\* QIFNode.neuronal_charge, with the v_rest of the neuron and the default a0 and v_c
QIFNode_neuronal_charge(cfg, self, x) ==
    [self EXCEPT !.v = AsTensor(Elementwise(LAMBDA i :
        At(self.v, i) + Div(x[i] + Mul(Mul(a0, At(self.v, i) - cfg.v_rest), At(self.v, i) - v_c),
                            cfg.tau)))]
\* AdaptBaseNode.jit_neuronal_adaptation: w + 1. / tau_w * (a * (v - v_rest) - w)
jit_neuronal_adaptation(w, v) ==
    Elementwise(LAMBDA i : w[i] + Mul(InvScalar(tau_w), Mul(a, v[i] - v_rest) - w[i]))
\* AdaptBaseNode.neuronal_adaptation
neuronal_adaptation(self) ==
    [self EXCEPT !.w = AsTensor(jit_neuronal_adaptation(self.w.d, self.v.d))]

\* CLIFNode.__init__: decay factors
c_decay == Lit(500)
v_decay == Lit(750)
\* CLIFNode.neuronal_charge
CLIFNode_neuronal_charge(cfg, self, x) ==
    LET c1 == Elementwise(LAMBDA i : Mul(At(self.c, i), c_decay) + x[i])
    IN  [self EXCEPT !.c = AsTensor(c1),
                     !.v = AsTensor(Elementwise(LAMBDA i : Mul(At(self.v, i), v_decay) + c1[i]))]

\* MPBNLIFNode.pre_charge: the four charges of LIFNode, chosen as LIFNode.neuronal_charge
\* chooses them
MPBNLIFNode_pre_charge(cfg, self, x) == LIFNode_neuronal_charge(cfg, self, x)
\* MPBNBaseNode.neuronal_charge: pre_charge, then self.v = self.vbn(self.v).  vbn is
\* nn.Identity() in the neurons of the model (mpbn=False, or after
\* re_parameterize_v_threshold); compute_running_stats returns at once on a batch of one.
MPBNBaseNode_neuronal_charge(cfg, self, x) == MPBNLIFNode_pre_charge(cfg, self, x)

\* ParametricLIFNode.__init__: self.w = -log(init_tau - 1.), so that w.sigmoid() is
\* 1 / init_tau; 0.5 with init_tau = 2.
plif_w_sigmoid == Lit(500)
\* ParametricLIFNode.neuronal_charge
ParametricLIFNode_neuronal_charge(cfg, self, x) ==
    [self EXCEPT !.v = AsTensor(Elementwise(LAMBDA i :
        IF cfg.decay_input
        THEN IF cfg.soft \/ cfg.v_reset = 0
             THEN At(self.v, i) + Mul(x[i] - At(self.v, i), plif_w_sigmoid)
             ELSE At(self.v, i) + Mul(x[i] - (At(self.v, i) - cfg.v_reset), plif_w_sigmoid)
        ELSE IF cfg.soft \/ cfg.v_reset = 0
             THEN Mul(At(self.v, i), One - plif_w_sigmoid) + x[i]
             ELSE (At(self.v, i) - Mul(At(self.v, i) - cfg.v_reset, plif_w_sigmoid)) + x[i]))]

\* self.neuronal_charge(x): the method the class of the neuron defines
neuronal_charge(cfg, self, x) ==
    CASE cfg.kind \in {"IF", "SimpleIF"} -> IFNode_neuronal_charge(cfg, self, x)
      [] cfg.kind = "SimpleLIF" -> SimpleLIFNode_neuronal_charge(cfg, self, x)
      [] cfg.kind = "LIF" -> LIFNode_neuronal_charge(cfg, self, x)
      [] cfg.kind = "KLIF" -> KLIFNode_neuronal_charge(cfg, self, x)
      [] cfg.kind = "Izhikevich" -> IzhikevichNode_neuronal_charge(cfg, self, x)
      [] cfg.kind = "CLIF" -> CLIFNode_neuronal_charge(cfg, self, x)
      [] cfg.kind = "MPBNLIF" -> MPBNBaseNode_neuronal_charge(cfg, self, x)
      [] cfg.kind = "PLIF" -> ParametricLIFNode_neuronal_charge(cfg, self, x)
      [] cfg.kind = "QIF" -> QIFNode_neuronal_charge(cfg, self, x)

\* ---------------------------------------------------------------- fire
\* BaseNode.neuronal_fire, SimpleBaseNode.neuronal_fire:
\* self.surrogate_function(self.v - self.v_threshold); it returns the spike and assigns nothing
neuronal_fire(cfg, self) ==
    Elementwise(LAMBDA i : heaviside(At(self.v, i) - cfg.v_threshold))

\* A call of neuronal_fire returns [spike, self]: the spike and the memories it leaves.
\* faulty variant of BaseNode.neuronal_fire: the fire subtracts the threshold of the fired
\* elements itself
BaseNode_neuronal_fire_mut(cfg, self) ==
    [spike |-> neuronal_fire(cfg, self),
     self |-> [self EXCEPT !.v = AsTensor(Elementwise(LAMBDA i :
                  At(self.v, i) - Mul(neuronal_fire(cfg, self)[i], cfg.v_threshold)))]]
\* BaseNode.neuronal_fire, SimpleBaseNode.neuronal_fire as a call: one return statement
BaseNode_neuronal_fire(cfg, self) == [spike |-> neuronal_fire(cfg, self), self |-> self]

\* torch.sqrt on a tensor element: the nearest element to the square root
Sqrt(x) ==
    LET r == CHOOSE n \in 0..(x + Scale) : n * n <= x * Scale /\ x * Scale < (n + 1) * (n + 1)
    IN  IF x * Scale - r * r <= (r + 1) * (r + 1) - x * Scale THEN r ELSE r + 1
\* MPBNBaseNode.re_parameterize_v_threshold: the statistics and the affine parameters of the
\* batch normalisation it folds, the same for every feature: running_mean 0.25,
\* running_var 0.25, weight 2., bias 0.5, eps 1e-5
mpbn_mu == Lit(250)
mpbn_sigma2 == Lit(250)
mpbn_gamma == Lit(2000)
mpbn_beta == Lit(500)
mpbn_eps == RoundNearestEven(Scale, 100000)
\* torch.sqrt(self.sigma2 + self.eps)
mpbn_sigma == Sqrt(mpbn_sigma2 + mpbn_eps)
\* torch.exp(self.a): the parameter a is torch.full(..., 0.) at construction
exp_a == One
\* MPBNBaseNode.init_vth
init_vth(cfg, self, x) ==
    IF ~self.vth.isTensor THEN [self EXCEPT !.vth = full_like(x, cfg.v_threshold)] ELSE self
\* MPBNBaseNode.neuronal_fire, the assignments to self.vth (vth_ is the tensor init_vth made)
MPBN_vth(cfg, self) ==
    IF cfg.learnable_vth THEN AsTensor(Elementwise(LAMBDA i : exp_a))
    ELSE IF cfg.fold_bn
         THEN AsTensor(Elementwise(LAMBDA i :
                  Div(Mul(cfg.v_threshold - mpbn_beta, mpbn_sigma), mpbn_gamma) + mpbn_mu))
         ELSE self.vth
\* (self.v[mask] - mu[mask]) / sigma[mask] * gamma[mask] + beta[mask]
normalized_residual(v) ==
    Mul(Div(v - mpbn_mu, mpbn_sigma), mpbn_gamma) + mpbn_beta
\* MPBNBaseNode.neuronal_fire, v.ndim == 2, with vth the threshold it has assigned:
\* diff = self.v - self.vth; spike = surrogate_function(diff); with normalize_residual
\* the elements with diff <= 0 are overwritten in self.v
MPBN_fire(cfg, self, vth) ==
    [spike |-> Elementwise(LAMBDA i : heaviside(self.v.d[i] - vth.d[i])),
     self |-> [self EXCEPT
                 !.vth = vth,
                 !.v = IF cfg.normalize_residual
                       THEN AsTensor(Elementwise(LAMBDA i :
                                IF self.v.d[i] - vth.d[i] <= 0
                                THEN normalized_residual(self.v.d[i]) ELSE self.v.d[i]))
                       ELSE self.v]]
\* MPBNBaseNode.neuronal_fire
MPBNBaseNode_neuronal_fire(cfg, self) == MPBN_fire(cfg, self, MPBN_vth(cfg, self))

\* spike = self.neuronal_fire(): the method the class of the neuron defines
call_neuronal_fire(cfg, self) ==
    IF cfg.kind = "MPBNLIF" THEN MPBNBaseNode_neuronal_fire(cfg, self)
    ELSE BaseNode_neuronal_fire(cfg, self)

\* --------------------------------------------------------------- reset
\* spike.detach() has the value of spike: spike_d and spike are the same element values.
\* BaseNode.neuronal_reset
BaseNode_neuronal_reset(cfg, self, spike) ==
    IF cfg.soft
    THEN [self EXCEPT !.v = AsTensor(jit_soft_reset(self.v.d, spike, cfg.v_threshold))]
    ELSE [self EXCEPT !.v = AsTensor(jit_hard_reset(self.v.d, spike, cfg.v_reset))]

\* SimpleBaseNode.neuronal_reset
SimpleBaseNode_neuronal_reset(cfg, self, spike) ==
    IF cfg.soft
    THEN [self EXCEPT !.v = AsTensor(Elementwise(LAMBDA i :
             At(self.v, i) - Mul(cfg.v_threshold, spike[i])))]
    ELSE [self EXCEPT !.v = AsTensor(Elementwise(LAMBDA i :
             Mul(spike[i], cfg.v_reset) + Mul(One - spike[i], At(self.v, i))))]

\* faulty variant of KLIFNode.neuronal_reset: with scale_reset the soft reset too divides
\* by k first and subtracts the threshold from the divided potential
KLIFNode_neuronal_reset_mut(cfg, self, spike) ==
    IF cfg.scale_reset
    THEN IF cfg.soft
         THEN [self EXCEPT !.v = AsTensor(jit_soft_reset(
                  Elementwise(LAMBDA i : Div(self.v.d[i], cfg.k)), spike, cfg.v_threshold))]
         ELSE [self EXCEPT !.v = AsTensor(jit_hard_reset(
                  Elementwise(LAMBDA i : Div(self.v.d[i], cfg.k)), spike, cfg.v_reset))]
    ELSE IF cfg.soft
         THEN [self EXCEPT !.v = AsTensor(jit_soft_reset(self.v.d, spike, cfg.v_threshold))]
         ELSE [self EXCEPT !.v = AsTensor(jit_hard_reset(self.v.d, spike, cfg.v_reset))]
\* KLIFNode.neuronal_reset
KLIFNode_neuronal_reset(cfg, self, spike) ==
    IF cfg.scale_reset
    THEN IF cfg.soft
         THEN [self EXCEPT !.v = AsTensor(Elementwise(LAMBDA i :
                  Div(jit_soft_reset(self.v.d, spike, cfg.v_threshold)[i], cfg.k)))]
         ELSE [self EXCEPT !.v = AsTensor(jit_hard_reset(
                  Elementwise(LAMBDA i : Div(self.v.d[i], cfg.k)), spike, cfg.v_reset))]
    ELSE IF cfg.soft
         THEN [self EXCEPT !.v = AsTensor(jit_soft_reset(self.v.d, spike, cfg.v_threshold))]
         ELSE [self EXCEPT !.v = AsTensor(jit_hard_reset(self.v.d, spike, cfg.v_reset))]

\* AdaptBaseNode.jit_hard_reset
Adapt_jit_hard_reset(v, w, spike_d, v_reset, spike) ==
    [v |-> Elementwise(LAMBDA i : Mul(One - spike_d[i], v[i]) + Mul(spike[i], v_reset)),
     w |-> Elementwise(LAMBDA i : w[i] + Mul(b, spike[i]))]
\* AdaptBaseNode.jit_soft_reset
Adapt_jit_soft_reset(v, w, spike_d, v_threshold, spike) ==
    [v |-> Elementwise(LAMBDA i : v[i] - Mul(spike_d[i], v_threshold)),
     w |-> Elementwise(LAMBDA i : w[i] + Mul(b, spike[i]))]
\* AdaptBaseNode.neuronal_reset
AdaptBaseNode_neuronal_reset(cfg, self, spike) ==
    LET r == IF cfg.soft
             THEN Adapt_jit_soft_reset(self.v.d, self.w.d, spike, cfg.v_threshold, spike)
             ELSE Adapt_jit_hard_reset(self.v.d, self.w.d, spike, cfg.v_reset, spike)
    IN  [self EXCEPT !.v = AsTensor(r.v), !.w = AsTensor(r.w)]

\* self.neuronal_reset(spike): the method the class of the neuron defines
neuronal_reset(cfg, self, spike) ==
    CASE cfg.kind \in {"IF", "LIF", "CLIF", "MPBNLIF", "PLIF", "QIF"} ->
            BaseNode_neuronal_reset(cfg, self, spike)
      [] cfg.kind \in {"SimpleIF", "SimpleLIF"} -> SimpleBaseNode_neuronal_reset(cfg, self, spike)
      [] cfg.kind = "KLIF" -> KLIFNode_neuronal_reset(cfg, self, spike)
      [] cfg.kind = "Izhikevich" -> AdaptBaseNode_neuronal_reset(cfg, self, spike)

\* -------------------------------------------------------- single step
\* the events of one charge, fire, reset pass that starts from memories s0
Cycle(t, s0, s1) == <<Ev("charge", t, t, s0.v.isTensor), Ev("fire", t, t, s1.v.isTensor),
                      Ev("reset", t, t, s1.v.isTensor)>>
\* the same with the fire a call of neuronal_fire that left the memories s2
CycleOfCalls(t, s0, s1, s2) ==
    <<Ev("charge", t, t, s0.v.isTensor), FireEv(t, s1, s2), Ev("reset", t, t, s2.v.isTensor)>>

\* the last statements of single_step_forward: self.neuronal_reset(spike); return spike
\* (h: the potential the fire read, f: what the fire returned and left)
ResetAndReturn(cfg, h, f, tr) ==
    RetH(neuronal_reset(cfg, f.self, f.spike), f.spike, tr, h)
\* the trace of the step, once the fire has returned f
Fired(cfg, s0, s1, f, t, tr) ==
    ResetAndReturn(cfg, s1.v.d, f, tr \o CycleOfCalls(t, s0, s1, f.self))
\* spike = self.neuronal_fire() on the charged memories s1, then the reset
\* (s0: the memories the charge read)
FireThenReset(cfg, s0, s1, t, tr) ==
    Fired(cfg, s0, s1, call_neuronal_fire(cfg, s1), t, tr)
\* self.neuronal_charge(x) on the memories s0, then the fire and the reset
ChargeThenFire(cfg, s0, x, t, tr) ==
    FireThenReset(cfg, s0, neuronal_charge(cfg, s0, x), t, tr)

\* faulty variant of BaseNode.single_step_forward: the spike is read before the charge
BaseNode_single_step_forward_mut(cfg, self, x, t) ==
    LET s0 == v_float_to_tensor(self, x)
        spike == neuronal_fire(cfg, s0)
        s1 == neuronal_charge(cfg, s0, x)
        s2 == neuronal_reset(cfg, s1, spike)
    IN  RetH(s2, spike, MatEv(self, t) \o <<Ev("fire", t, t, s0.v.isTensor),
             Ev("charge", t, t, s0.v.isTensor), Ev("reset", t, t, s1.v.isTensor)>>, s0.v.d)
\* BaseNode.single_step_forward:
\* v_float_to_tensor, neuronal_charge, neuronal_fire, neuronal_reset, return spike
BaseNode_single_step_forward(cfg, self, x, t) ==
    ChargeThenFire(cfg, v_float_to_tensor(self, x), x, t, MatEv(self, t))

\* SimpleBaseNode.single_step_forward: neuronal_charge, neuronal_fire, neuronal_reset, return spike
SimpleBaseNode_single_step_forward(cfg, self, x, t) ==
    ChargeThenFire(cfg, self, x, t, <<>>)

\* faulty variant of the statements of AdaptBaseNode.single_step_forward after the two
\* conversions: neuronal_adaptation runs before neuronal_charge, on the v of the step before
ChargeAdaptThenFire_mut(cfg, s0, x, t, tr) ==
    FireThenReset(cfg, s0, neuronal_charge(cfg, neuronal_adaptation(s0), x), t, tr)
\* the statements of AdaptBaseNode.single_step_forward after the two conversions:
\* neuronal_charge, neuronal_adaptation, then the fire and the reset
ChargeAdaptThenFire(cfg, s0, x, t, tr) ==
    FireThenReset(cfg, s0, neuronal_adaptation(neuronal_charge(cfg, s0, x)), t, tr)
\* AdaptBaseNode.single_step_forward
AdaptBaseNode_single_step_forward(cfg, self, x, t) ==
    ChargeAdaptThenFire(cfg, w_float_to_tensor(v_float_to_tensor(self, x), x), x, t,
                        MatEv(self, t))

\* CLIFNode.single_step_forward
CLIFNode_single_step_forward(cfg, self, x, t) ==
    ChargeThenFire(cfg, c_float_to_tensor(v_float_to_tensor(self, x), x), x, t, MatEv(self, t))

\* MPBNBaseNode.single_step_forward
MPBNBaseNode_single_step_forward(cfg, self, x, t) ==
    ChargeThenFire(cfg, v_float_to_tensor(init_vth(cfg, self, x), x), x, t, MatEv(self, t))

\* faulty variant of IFNode.single_step_forward: v_float_to_tensor is not called
IFNode_single_step_forward_mut(cfg, self, x, t) ==
    SimpleBaseNode_single_step_forward(cfg, self, x, t)
\* IFNode.single_step_forward, backend 'torch'
IFNode_single_step_forward(cfg, self, x, t) ==
    IF cfg.training
    THEN BaseNode_single_step_forward(cfg, self, x, t)
    ELSE LET s0 == v_float_to_tensor(self, x)
             r == IF cfg.soft
                  THEN IF_jit_eval_single_step_forward_soft_reset(x, s0.v.d, cfg.v_threshold)
                  ELSE IF_jit_eval_single_step_forward_hard_reset(x, s0.v.d, cfg.v_threshold,
                                                                  cfg.v_reset)
         IN  RetH([s0 EXCEPT !.v = AsTensor(r.v)], r.spike, MatEv(self, t) \o Cycle(t, s0, s0),
                  r.h)

\* LIFNode.single_step_forward, backend 'torch'
LIFNode_single_step_forward(cfg, self, x, t) ==
    IF cfg.training
    THEN BaseNode_single_step_forward(cfg, self, x, t)
    ELSE LET s0 == v_float_to_tensor(self, x)
             r == IF cfg.soft
                  THEN IF cfg.decay_input
                       THEN jit_eval_single_step_forward_soft_reset_decay_input(
                                x, s0.v.d, cfg.v_threshold, cfg.tau)
                       ELSE jit_eval_single_step_forward_soft_reset_no_decay_input(
                                x, s0.v.d, cfg.v_threshold, cfg.tau)
                  ELSE IF cfg.decay_input
                       THEN jit_eval_single_step_forward_hard_reset_decay_input(
                                x, s0.v.d, cfg.v_threshold, cfg.v_reset, cfg.tau)
                       ELSE jit_eval_single_step_forward_hard_reset_no_decay_input(
                                x, s0.v.d, cfg.v_threshold, cfg.v_reset, cfg.tau)
         IN  RetH([s0 EXCEPT !.v = AsTensor(r.v)], r.spike, MatEv(self, t) \o Cycle(t, s0, s0),
                  r.h)

\* self.single_step_forward(x): the method the class of the neuron defines
\* (KLIFNode, ParametricLIFNode and QIFNode inherit BaseNode's)
single_step_forward(cfg, self, x, t) ==
    CASE cfg.kind = "IF" -> IFNode_single_step_forward(cfg, self, x, t)
      [] cfg.kind = "LIF" -> LIFNode_single_step_forward(cfg, self, x, t)
      [] cfg.kind \in {"KLIF", "PLIF", "QIF"} -> BaseNode_single_step_forward(cfg, self, x, t)
      [] cfg.kind = "Izhikevich" -> AdaptBaseNode_single_step_forward(cfg, self, x, t)
      [] cfg.kind = "CLIF" -> CLIFNode_single_step_forward(cfg, self, x, t)
      [] cfg.kind = "MPBNLIF" -> MPBNBaseNode_single_step_forward(cfg, self, x, t)
      [] cfg.kind \in {"SimpleIF", "SimpleLIF"} -> SimpleBaseNode_single_step_forward(cfg, self, x, t)

\* --------------------------------------------------------- multi step
RECURSIVE StepLoop(_,_,_,_,_,_,_,_)
RECURSIVE Collect(_,_,_,_,_,_,_,_)
\* the loop `for t in range(T)` of BaseNode.multi_step_forward, at step t with the
\* lists y_seq and v_seq and the events tr collected so far; store: self.store_v_seq
StepLoop(cfg, self, x_seq, t, y_seq, v_seq, tr, store) ==
    IF t > Len(x_seq)
    THEN Ret(IF store THEN [self EXCEPT !.v_seq = v_seq] ELSE self, y_seq, tr)
    ELSE Collect(cfg, single_step_forward(cfg, self, x_seq[t], t), x_seq, t, y_seq, v_seq, tr,
                 store)
\* the rest of the loop body once single_step_forward has returned r:
\* y_seq.append(y), v_seq.append(self.v) if store_v_seq, and on to step t + 1
Collect(cfg, r, x_seq, t, y_seq, v_seq, tr, store) ==
    StepLoop(cfg, r.self, x_seq, t + 1, Append(y_seq, r.y),
             IF store THEN Append(v_seq, r.self.v.d) ELSE v_seq, tr \o r.tr, store)

\* faulty variant of BaseNode.multi_step_forward: v_seq is never collected
BaseNode_multi_step_forward_unstored(cfg, self, x_seq) ==
    StepLoop(cfg, self, x_seq, 1, <<>>, <<>>, <<>>, FALSE)
\* faulty variant of BaseNode.multi_step_forward: the last time step is skipped
BaseNode_multi_step_forward_mut(cfg, self, x_seq) ==
    StepLoop(cfg, self, SubSeq(x_seq, 1, Len(x_seq) - 1), 1, <<>>, <<>>, <<>>, cfg.store_v_seq)
\* BaseNode.multi_step_forward
BaseNode_multi_step_forward(cfg, self, x_seq) ==
    StepLoop(cfg, self, x_seq, 1, <<>>, <<>>, <<>>, cfg.store_v_seq)

\* CLIFNode.multi_step_forward: the same loop, v_seq is never collected
CLIFNode_multi_step_forward(cfg, self, x_seq) ==
    StepLoop(cfg, self, x_seq, 1, <<>>, <<>>, <<>>, FALSE)

\* base.MemoryModule.multi_step_forward, which SimpleBaseNode inherits: single_step_forward
\* on every element of the sequence in order, the outputs stacked
MemoryModule_multi_step_forward(cfg, self, x_seq) ==
    StepLoop(cfg, self, x_seq, 1, <<>>, <<>>, <<>>, FALSE)

\* the events of the fused evaluation loops: per step the statements charge, fire, reset
FusedTrace(T) == [j \in 1..(3 * T) |->
                    Ev(<<"charge", "fire", "reset">>[((j - 1) % 3) + 1],
                       ((j - 1) \div 3) + 1, ((j - 1) \div 3) + 1, TRUE)]

\* IFNode.multi_step_forward, backend 'torch'
IFNode_multi_step_forward(cfg, self, x_seq) ==
    IF cfg.training
    THEN BaseNode_multi_step_forward(cfg, self, x_seq)
    ELSE LET s0 == v_float_to_tensor(self, x_seq[1])
             tr == MatEv(self, 1) \o FusedTrace(Len(x_seq))
         IN  IF cfg.soft
             THEN IF cfg.store_v_seq
                  THEN LET r == IF_jit_eval_multi_step_forward_soft_reset_with_v_seq(
                                    x_seq, s0.v.d, cfg.v_threshold)
                       IN  Ret([s0 EXCEPT !.v = AsTensor(r.v), !.v_seq = r.v_seq], r.spike_seq, tr)
                  ELSE LET r == IF_jit_eval_multi_step_forward_soft_reset(
                                    x_seq, s0.v.d, cfg.v_threshold)
                       IN  Ret([s0 EXCEPT !.v = AsTensor(r.v)], r.spike_seq, tr)
             ELSE IF cfg.store_v_seq
                  THEN LET r == IF_jit_eval_multi_step_forward_hard_reset_with_v_seq(
                                    x_seq, s0.v.d, cfg.v_threshold, cfg.v_reset)
                       IN  Ret([s0 EXCEPT !.v = AsTensor(r.v), !.v_seq = r.v_seq], r.spike_seq, tr)
                  ELSE LET r == IF_jit_eval_multi_step_forward_hard_reset(
                                    x_seq, s0.v.d, cfg.v_threshold, cfg.v_reset)
                       IN  Ret([s0 EXCEPT !.v = AsTensor(r.v)], r.spike_seq, tr)

\* LIFNode.multi_step_forward, backend 'torch'
LIFNode_multi_step_forward(cfg, self, x_seq) ==
    IF cfg.training
    THEN BaseNode_multi_step_forward(cfg, self, x_seq)
    ELSE LET s0 == v_float_to_tensor(self, x_seq[1])
             tr == MatEv(self, 1) \o FusedTrace(Len(x_seq))
         IN  IF cfg.soft
             THEN IF cfg.decay_input
                  THEN
                       IF cfg.store_v_seq
                       THEN
                            LET r == jit_eval_multi_step_forward_soft_reset_decay_input_with_v_seq(
                                         x_seq, s0.v.d, cfg.v_threshold, cfg.tau)
                            IN  Ret([s0 EXCEPT !.v = AsTensor(r.v), !.v_seq = r.v_seq], r.spike_seq, tr)
                       ELSE
                            LET r == jit_eval_multi_step_forward_soft_reset_decay_input(
                                         x_seq, s0.v.d, cfg.v_threshold, cfg.tau)
                            IN  Ret([s0 EXCEPT !.v = AsTensor(r.v)], r.spike_seq, tr)
                  ELSE
                       IF cfg.store_v_seq
                       THEN
                            LET r == jit_eval_multi_step_forward_soft_reset_no_decay_input_with_v_seq(
                                         x_seq, s0.v.d, cfg.v_threshold, cfg.tau)
                            IN  Ret([s0 EXCEPT !.v = AsTensor(r.v), !.v_seq = r.v_seq], r.spike_seq, tr)
                       ELSE
                            LET r == jit_eval_multi_step_forward_soft_reset_no_decay_input(
                                         x_seq, s0.v.d, cfg.v_threshold, cfg.tau)
                            IN  Ret([s0 EXCEPT !.v = AsTensor(r.v)], r.spike_seq, tr)
             ELSE IF cfg.decay_input
                  THEN
                       IF cfg.store_v_seq
                       THEN
                            LET r == jit_eval_multi_step_forward_hard_reset_decay_input_with_v_seq(
                                         x_seq, s0.v.d, cfg.v_threshold, cfg.v_reset, cfg.tau)
                            IN  Ret([s0 EXCEPT !.v = AsTensor(r.v), !.v_seq = r.v_seq], r.spike_seq, tr)
                       ELSE
                            LET r == jit_eval_multi_step_forward_hard_reset_decay_input(
                                         x_seq, s0.v.d, cfg.v_threshold, cfg.v_reset, cfg.tau)
                            IN  Ret([s0 EXCEPT !.v = AsTensor(r.v)], r.spike_seq, tr)
                  ELSE
                       IF cfg.store_v_seq
                       THEN
                            LET r == jit_eval_multi_step_forward_hard_reset_no_decay_input_with_v_seq(
                                         x_seq, s0.v.d, cfg.v_threshold, cfg.v_reset, cfg.tau)
                            IN  Ret([s0 EXCEPT !.v = AsTensor(r.v), !.v_seq = r.v_seq], r.spike_seq, tr)
                       ELSE
                            LET r == jit_eval_multi_step_forward_hard_reset_no_decay_input(
                                         x_seq, s0.v.d, cfg.v_threshold, cfg.v_reset, cfg.tau)
                            IN  Ret([s0 EXCEPT !.v = AsTensor(r.v)], r.spike_seq, tr)

\* ----------------------------------------------------------- GatedLIF
\* GatedLIFNode.__init__: the gates and parameters after their sigmoid, at their initial
\* values (alpha, beta, gamma near 0.5; init_tau, init_v_threshold, init_conduct,
\* init_v_subreset = init_v_threshold, init_linear_decay = init_v_threshold / (T * 2))
glif_gate == Lit(500)
glif_tau == Lit(250)
glif_v_threshold == Lit(500)
glif_conduct == Lit(500)
glif_v_subreset == Lit(500)
glif_linear_decay(T) == RoundNearestEven(Lit(500), T * 2)
\* 1 - alpha * (1 - self.tau.sigmoid())
glif_leak == One - Mul(glif_gate, One - glif_tau)

\* GatedLIFNode.neuronal_charge
GatedLIFNode_neuronal_charge(cfg, self, x) ==
    [self EXCEPT !.u = AsTensor(Elementwise(LAMBDA i :
        (Mul(glif_leak, At(self.v, i)) - Mul(One - glif_gate, glif_linear_decay(cfg.T)))
        + Mul(x[i], One - Mul(glif_gate, One - glif_conduct))))]
\* GatedLIFNode.neuronal_reset
GatedLIFNode_neuronal_reset(cfg, self, spike) ==
    [self EXCEPT !.u = AsTensor(Elementwise(LAMBDA i :
        (At(self.u, i) - Mul(Mul(Mul(glif_leak, At(self.v, i)), glif_gate), spike[i]))
        - Mul(Mul(One - glif_gate, glif_v_subreset), spike[i])))]
\* GatedLIFNode.neuronal_fire
GatedLIFNode_neuronal_fire(cfg, self) ==
    Elementwise(LAMBDA i : heaviside(At(self.u, i) - glif_v_threshold))

RECURSIVE GatedLIFLoop(_,_,_,_,_,_,_)
\* the loop `for t in range(self.T)` of GatedLIFNode.multi_step_forward at step t, spike
\* being the spike of the step before (zeros at first); x_seq[t] past the end of the
\* sequence raises IndexError out of the loop
GatedLIFLoop(cfg, self, x_seq, t, spike, y_seq, tr) ==
    IF t > cfg.T THEN Ret(self, y_seq, tr)
    ELSE IF t > Len(x_seq) THEN [self |-> self, y |-> <<>>, tr |-> tr, raised |-> TRUE, h |-> <<>>]
    ELSE LET s1 == GatedLIFNode_neuronal_charge(cfg, self, x_seq[t])
             s2 == GatedLIFNode_neuronal_reset(cfg, s1, spike)
             fired == GatedLIFNode_neuronal_fire(cfg, s2)
             s3 == [s2 EXCEPT !.v = s2.u]
         IN  GatedLIFLoop(cfg, s3, x_seq, t + 1, fired, Append(y_seq, fired),
                          tr \o <<Ev("charge", t, t, self.v.isTensor),
                                  Ev("reset", t, t - 1, self.v.isTensor),
                                  [FireEv(t, s2, s2) EXCEPT !.vt = self.v.isTensor]>>)
\* GatedLIFNode.multi_step_forward
GatedLIFNode_multi_step_forward(cfg, self, x_seq) ==
    GatedLIFLoop(cfg, self, x_seq, 1, zeros_like(x_seq[1]), <<>>, <<>>)

\* ---------------------------------------------------------- MaskedPSN
\* the record c with the fields of more added or replaced
Merge(c, more) ==
    [f \in DOMAIN c \cup DOMAIN more |-> IF f \in DOMAIN more THEN more[f] ELSE c[f]]
\* MaskedPSN(k, T, lambda_init): weight is a T x T parameter (kaiming_uniform_), here the
\* leading T x T block of [[0.5, 0.25, 0.75], [-0.25, 0.5, 0.3], [0.4, -0.6, 0.7]]; the bias
\* is the constant -1. of the constructor
psn_weight == <<<<Lit(500), Lit(250), Lit(750)>>, <<Lit(-250), Lit(500), Lit(300)>>,
                <<Lit(400), Lit(-600), Lit(700)>>>>
psn_bias == Lit(-1000)
\* mask0 = torch.tril(mask1) * torch.triu(mask1, -(self.k - 1)), entry [t][s]
mask0(c, t, s) == IF s <= t /\ s >= t - (c.k - 1) THEN One ELSE 0
\* faulty variant of masked_weight: with lambda_ >= 1 the weight is not masked
masked_weight_mut(c) ==
    [t \in 1..c.T |-> [s \in 1..c.T |-> Mul(psn_weight[t][s], One)]]
\* MaskedPSN.masked_weight: weight * mask0 with lambda_ >= 1., else gen_masked_weight,
\* (lambda_ * mask0 + (1. - lambda_) * mask1) * weight
masked_weight(c) ==
    [t \in 1..c.T |-> [s \in 1..c.T |->
        IF c.lambda_ >= One THEN Mul(psn_weight[t][s], mask0(c, t, s))
        ELSE Mul(Mul(c.lambda_, mask0(c, t, s)) + Mul(One - c.lambda_, One),
                 psn_weight[t][s])]]
RECURSIVE psn_row(_,_,_,_)
\* the sum over s = 1 .. n of weight[s] * x_seq[s][i], weight a row of weights
psn_row(weight, x_seq, i, n) ==
    IF n = 0 THEN 0 ELSE psn_row(weight, x_seq, i, n - 1) + Mul(weight[n], x_seq[n][i])
\* MaskedPSN.multi_step_forward: assert x_seq.shape[0] == self.T, then
\* h_seq = addmm(bias, masked_weight(), x_seq) and spike_seq = surrogate_function(h_seq).
\* It reads and writes no memory and has no reset.
MaskedPSN_multi_step_forward(cfg, self, x_seq) ==
    IF Len(x_seq) # cfg.T
    THEN [self |-> self, y |-> <<>>, tr |-> <<>>, raised |-> TRUE, h |-> <<>>]
    ELSE RetH(self, [t \in 1..cfg.T |->
                      Elementwise(LAMBDA i : heaviside(psn_bias +
                          psn_row(masked_weight(cfg)[t], x_seq, i, cfg.T)))],
              <<>>,
              [t \in 1..cfg.T |->
                      Elementwise(LAMBDA i : psn_bias +
                          psn_row(masked_weight(cfg)[t], x_seq, i, cfg.T))])

\* faulty variant of the queue update: a full queue drops the input that arrives
push_mut(queue, x, k) == IF Len(queue) + 1 > k THEN queue ELSE Append(queue, x)
\* self.queue.append(x.flatten()); if self.queue.__len__() > self.k: self.queue.pop(0)
push(queue, x, k) == IF Len(queue) + 1 > k THEN Tail(Append(queue, x)) ELSE Append(queue, x)
\* What a single-step call of a PSN returns and leaves: the memories self, the spike y,
\* the value h the surrogate function was given, and the exception raised ("" for none).
PSNRet(self, y, h, err) == [self |-> self, y |-> y, h |-> h, err |-> err]
\* faulty variant: past the horizon the rows are used again from the first
MaskedPSN_step_mut(c, time_step, queue) ==
    LET ts == time_step % c.T
        n == IF Len(queue) > ts + 1 THEN ts + 1 ELSE Len(queue)
        h == Elementwise(LAMBDA i :
                 psn_row(SubSeq(masked_weight(c)[ts + 1], ts + 2 - n, ts + 1),
                         SubSeq(queue, Len(queue) - n + 1, Len(queue)), i, n) + psn_bias)
    IN  PSNRet([time_step |-> time_step + 1, queue |-> queue],
               Elementwise(LAMBDA i : heaviside(h[i])), h, "")
\* MaskedPSN.single_step_forward from the test of the horizon on, with the queue already
\* updated: the slice [time_step + 1 - len(queue) : time_step + 1] of row time_step of
\* masked_weight(), h = torch.sum(weight * x_seq, 0), the spike of h + bias[time_step],
\* and self.time_step += 1
MaskedPSN_step(c, time_step, queue) ==
    IF time_step + 1 > c.T
    THEN PSNRet([time_step |-> time_step, queue |-> queue], <<>>, <<>>, "OverflowError")
    ELSE LET h == Elementwise(LAMBDA i :
                      psn_row(SubSeq(masked_weight(c)[time_step + 1],
                                     time_step + 2 - Len(queue), time_step + 1),
                              queue, i, Len(queue)) + psn_bias)
         IN  PSNRet([time_step |-> time_step + 1, queue |-> queue],
                    Elementwise(LAMBDA i : heaviside(h[i])), h, "")
\* MaskedPSN.single_step_forward
MaskedPSN_single_step_forward(c, self, x) ==
    IF c.lambda_ < One THEN PSNRet(self, <<>>, <<>>, "ValueError")
    ELSE MaskedPSN_step(c, self.time_step, push(self.queue, x, c.k))

\* ---------------------------------------------------------- SlidingPSN
\* SlidingPSN(k): weight is a parameter of k elements, c.weight; the bias is -1.
\* SlidingPSN.single_step_forward: the queue is updated, weight = self.weight[k -
\* len(queue) : k], h = torch.sum(weight * x_seq, 0), the spike of h + bias
SlidingPSN_step(c, queue) ==
    LET h == Elementwise(LAMBDA i :
                 psn_row(SubSeq(c.weight, c.k - Len(queue) + 1, c.k), queue, i, Len(queue))
                 + psn_bias)
    IN  PSNRet([time_step |-> 0, queue |-> queue], Elementwise(LAMBDA i : heaviside(h[i])),
               h, "")
SlidingPSN_single_step_forward(c, self, x) == SlidingPSN_step(c, push(self.queue, x, c.k))
\* faulty variant of gen_gemm_weight: a row shorter than k takes the first weights
gen_gemm_weight_mut(c, T) ==
    [i \in 1..T |-> [s \in 1..T |->
        IF s <= i /\ s > i - c.k
        THEN c.weight[s - (IF i - c.k > 0 THEN i - c.k ELSE 0)]
        ELSE 0]]
\* SlidingPSN.gen_gemm_weight: row i (counted from 0) holds self.weight[k - length : k] in
\* the columns start .. end - 1, start = max(0, i + 1 - k), end = i + 1, length =
\* min(end - start, k), and zeros elsewhere; here rows and columns are counted from 1
gen_gemm_weight(c, T) ==
    [i \in 1..T |-> [s \in 1..T |->
        LET start == IF i - c.k > 0 THEN i - c.k ELSE 0
            length == IF i - start < c.k THEN i - start ELSE c.k
        IN  IF s > start /\ s <= i THEN c.weight[c.k - length + (s - start)] ELSE 0]]
\* F.pad(x_seq, pad=(self.k - 1, 0)): k - 1 zeros before the sequence
pad(c, x_seq) == [j \in 1..(c.k - 1) |-> zeros_like(x_seq[1])] \o x_seq
\* SlidingPSN.multi_step_forward: backend 'gemm', addmm(bias, gen_gemm_weight(T), x_seq),
\* or backend 'conv', conv1d of the padded sequence with the weight, plus the bias; the
\* spikes y of the values h
SlidingPSN_h_seq(c, x_seq) ==
    IF c.backend = "gemm"
    THEN [t \in 1..Len(x_seq) |-> Elementwise(LAMBDA i :
             psn_bias + psn_row(gen_gemm_weight(c, Len(x_seq))[t], x_seq, i, Len(x_seq)))]
    ELSE [t \in 1..Len(x_seq) |-> Elementwise(LAMBDA i :
             psn_row(c.weight, SubSeq(pad(c, x_seq), t, t + c.k - 1), i, c.k) + psn_bias)]
Spikes(h_seq) == [t \in 1..Len(h_seq) |-> Elementwise(LAMBDA i : heaviside(h_seq[t][i]))]
SlidingPSN_multi_step_forward(c, self, x_seq) ==
    PSNRet(self, Spikes(SlidingPSN_h_seq(c, x_seq)), SlidingPSN_h_seq(c, x_seq), "")

\* self.multi_step_forward(x_seq): the method the class of the neuron defines
\* (KLIFNode and MPBNLIFNode inherit BaseNode's; IzhikevichNode's, ParametricLIFNode's and
\* QIFNode's, backend 'torch', are BaseNode's)
multi_step_forward(cfg, self, x_seq) ==
    CASE cfg.kind = "IF" -> IFNode_multi_step_forward(cfg, self, x_seq)
      [] cfg.kind = "LIF" -> LIFNode_multi_step_forward(cfg, self, x_seq)
      [] cfg.kind \in {"KLIF", "Izhikevich", "MPBNLIF", "PLIF", "QIF"} ->
            BaseNode_multi_step_forward(cfg, self, x_seq)
      [] cfg.kind = "CLIF" -> CLIFNode_multi_step_forward(cfg, self, x_seq)
      [] cfg.kind \in {"SimpleIF", "SimpleLIF"} -> MemoryModule_multi_step_forward(cfg, self, x_seq)
      [] cfg.kind = "GatedLIF" -> GatedLIFNode_multi_step_forward(cfg, self, x_seq)

\* ------------------------------------------------------ state machine
\* Input tensors: element 1 carries 0.6, 0.5, 0.0, element 2 carries 2.5, 1.0, 0.0,
\* any further element 0.3, 1.5, 0.0
InputA == [i \in Idx |-> IF i = 1 THEN Lit(600) ELSE IF i = 2 THEN Lit(2500) ELSE Lit(300)]
InputD == [i \in Idx |-> IF i = 1 THEN Lit(500) ELSE IF i = 2 THEN Lit(1000) ELSE Lit(1500)]
InputZ == [i \in Idx |-> Lit(0)]
Inputs == {InputA, InputD, InputZ}
\* Input sequences x_seq of shape [T, N], 1 <= T <= MaxT: the first T elements of
\* A A A ... and of D Z Z ...
Patterns == {[t \in 1..MaxT |-> InputA],
             [t \in 1..MaxT |-> IF t = 1 THEN InputD ELSE InputZ]}
XSeqs == {SubSeq(p, 1, n) : p \in Patterns, n \in 1..MaxT}

\* Constructor arguments and parameters.  soft: v_reset is None; training: self.training;
\* v_reset is read only where soft is FALSE; k: the learnable parameter of KLIFNode, 1. at
\* construction and any value once trained or loaded; T: the T of GatedLIFNode; v_rest:
\* the v_rest of IzhikevichNode (its default, -0.1) and of QIFNode.
Cfg(kind, training, soft, v_reset, v_threshold, decay_input, tau, store_v_seq, scale_reset, k) ==
    [kind |-> kind, training |-> training, soft |-> soft, v_reset |-> v_reset,
     v_threshold |-> v_threshold, decay_input |-> decay_input, tau |-> tau,
     store_v_seq |-> store_v_seq, scale_reset |-> scale_reset, k |-> k, T |-> 2,
     learnable_vth |-> FALSE, fold_bn |-> FALSE, normalize_residual |-> FALSE,
     v_rest |-> v_rest]
\* MPBNLIFNode(tau=2., decay_input=False): with mpbn=False as constructed, learnable_vth or
\* not; and with mpbn=True in evaluation mode after re_parameterize_v_threshold(
\* normalize_residual), which sets fold_bn and replaces vbn by nn.Identity()
MPBNCfg(training, soft, v_threshold, learnable_vth, fold_bn, normalize_residual) ==
    [Cfg("MPBNLIF", training, soft, 0, v_threshold, FALSE, 2 * One, FALSE, FALSE, One)
        EXCEPT !.learnable_vth = learnable_vth, !.fold_bn = fold_bn,
               !.normalize_residual = normalize_residual]
\* QIFNode(tau=2., v_threshold=1., v_reset=..., v_rest=...)
QIFCfg(soft, v_reset, qif_v_rest) ==
    [Cfg("QIF", TRUE, soft, v_reset, One, TRUE, 2 * One, FALSE, FALSE, One)
        EXCEPT !.v_rest = qif_v_rest]
\* the reset modes: soft, hard to 0., hard to -0.5; beside them one IFNode with
\* v_reset = v_threshold = 1., which BaseNode.__init__ accepts: it asserts the types of
\* v_reset and v_threshold and compares nothing
Modes == {<<TRUE, 0>>, <<FALSE, 0>>, <<FALSE, Lit(-500)>>}
\* The arguments the constructors are called with.  Those of QIFNode are the defaults
\* (v_reset=-0.1, v_rest=0.), a soft reset with v_rest=-0.5, and two sets its assertions
\* refuse: v_rest=-0.1 below v_reset=0., and v_reset=1. not below v_threshold=1.; those
\* of IzhikevichNode are its defaults (v_reset=0., v_rest=-0.1) and a soft reset.
Configs ==
    {Cfg("IF", tr, m[1], m[2], One, FALSE, 2 * One, st, FALSE, One) :
        tr \in BOOLEAN, m \in Modes, st \in BOOLEAN}
    \cup {Cfg("LIF", tr, m[1], m[2], One, di, 3 * One, st, FALSE, One) :
        tr \in BOOLEAN, m \in Modes, di \in BOOLEAN, st \in BOOLEAN}
    \cup {Cfg("LIF", tr, TRUE, 0, One, TRUE, 2 * One, st, FALSE, One) :
        tr \in BOOLEAN, st \in BOOLEAN}
    \cup {Cfg("IF", tr, FALSE, One, One, FALSE, 2 * One, TRUE, FALSE, One) : tr \in BOOLEAN}
    \cup {Cfg("KLIF", TRUE, m[1], m[2], One, di, 2 * One, FALSE, sk[1], sk[2]) :
        m \in {<<TRUE, 0>>, <<FALSE, 0>>}, di \in BOOLEAN,
        sk \in {<<FALSE, One>>, <<TRUE, One>>, <<TRUE, 2 * One>>}}
    \cup {Cfg(kd, TRUE, m[1], m[2], One, TRUE, 2 * One, FALSE, FALSE, One) :
        kd \in {"SimpleIF", "SimpleLIF", "Izhikevich"}, m \in {<<TRUE, 0>>, <<FALSE, 0>>}}
    \cup {Cfg("CLIF", TRUE, FALSE, 0, Lit(500), FALSE, 2 * One, FALSE, FALSE, One),
          Cfg("GatedLIF", TRUE, TRUE, 0, Lit(500), FALSE, 2 * One, FALSE, FALSE, One),
          Merge(Cfg("MaskedPSN", TRUE, TRUE, 0, 0, FALSE, 2 * One, FALSE, FALSE, 2),
                [lambda_ |-> 0])}
    \cup {MPBNCfg(TRUE, FALSE, One, FALSE, FALSE, FALSE),
          MPBNCfg(TRUE, FALSE, Lit(500), TRUE, FALSE, FALSE),
          MPBNCfg(FALSE, FALSE, One, FALSE, TRUE, FALSE),
          MPBNCfg(FALSE, FALSE, One, FALSE, TRUE, TRUE),
          MPBNCfg(FALSE, TRUE, One, FALSE, TRUE, TRUE)}
    \cup {QIFCfg(FALSE, Lit(-100), 0), QIFCfg(TRUE, 0, Lit(-500)),
          QIFCfg(FALSE, 0, Lit(-100)), QIFCfg(FALSE, One, 2 * One)}

VARIABLES
    cfg,     \* the constructor arguments of the neuron
    node,    \* its memories: v, w, c, u, v_seq
    call,    \* the last call: what it was given and what it returned
    ncalls   \* the number of calls made

vars == <<cfg, node, call, ncalls>>

NoCall == [op |-> "none", pre |-> <<>>, x |-> <<>>, y |-> <<>>, tr |-> <<>>, raised |-> FALSE,
           h |-> <<>>]
Called(op, pre, x, r) ==
    [op |-> op, pre |-> pre, x |-> x, y |-> r.y, tr |-> r.tr, raised |-> r.raised, h |-> r.h]

\* the assertions of QIFNode.__init__ (those of EIFNode.__init__ on tau, v_threshold,
\* v_reset and v_rest are the same)
QIFNode_init(c) ==
    /\ c.tau > One
    /\ ~c.soft => (c.v_threshold > c.v_reset /\ c.v_rest >= c.v_reset)
    /\ a0 > 0
\* the assertions of IzhikevichNode.__init__; AdaptBaseNode.__init__ and BaseNode.__init__
\* assert the types of their arguments only
IzhikevichNode_init(c) == c.tau > One /\ a0 > 0
\* the constructor of the class returns a neuron for the arguments c
\* (LIFNode.__init__ and KLIFNode.__init__ assert tau > 1.)
Constructed(c) ==
    CASE c.kind = "QIF" -> QIFNode_init(c)
      [] c.kind = "Izhikevich" -> IzhikevichNode_init(c)
      [] c.kind \in {"LIF", "KLIF"} -> c.tau > One
      [] OTHER -> TRUE

Init ==
    /\ cfg \in {c \in Configs : Constructed(c)}
    /\ node = InitMemories(cfg)
    /\ call = NoCall
    /\ ncalls = 0

\* a call op on input x returns r: the neuron holds the memories r left
Return(op, x, r) ==
    /\ node' = r.self
    /\ call' = Called(op, node, x, r)
    /\ ncalls' = ncalls + 1
    /\ UNCHANGED cfg

\* the spike of a single step, as the one-element sequence of the spikes of the call
Single(r) == [r EXCEPT !.y = <<r.y>>]

\* the neuron, step_mode 's', is called on one tensor x
SingleStep(x) ==
    /\ ncalls < MaxCalls
    /\ cfg.kind \notin {"GatedLIF", "MaskedPSN"}
    /\ Return("single", <<x>>, Single(single_step_forward(cfg, node, x, 1)))

\* the neuron, step_mode 'm', is called on a sequence x_seq
MultiStep(x_seq) ==
    /\ ncalls < MaxCalls
    /\ cfg.kind # "MaskedPSN"
    /\ Return("multi", x_seq, multi_step_forward(cfg, node, x_seq))

\* the MaskedPSN, step_mode 'm', is called on a sequence x_seq
PSNMultiStep(x_seq) ==
    /\ ncalls < MaxCalls
    /\ cfg.kind = "MaskedPSN"
    /\ Return("psn", x_seq, MaskedPSN_multi_step_forward(cfg, node, x_seq))

\* v_float_to_tensor, and w_float_to_tensor or c_float_to_tensor where the class has it
float_to_tensor(c, self, x) ==
    IF c.kind = "Izhikevich" THEN w_float_to_tensor(v_float_to_tensor(self, x), x)
    ELSE IF c.kind = "CLIF" THEN c_float_to_tensor(v_float_to_tensor(self, x), x)
    ELSE v_float_to_tensor(self, x)

\* the float-to-tensor methods of the neuron are called on x, outside any step
Materialize(x) ==
    /\ ncalls < MaxCalls
    /\ cfg.kind \in {"IF", "LIF", "KLIF", "Izhikevich", "CLIF"}
    /\ Return("mat", <<x>>, Ret(float_to_tensor(cfg, node, x), <<>>, MatEv(node, 1)))

Next ==
    \/ \E x \in Inputs : SingleStep(x)
    \/ \E x_seq \in XSeqs : MultiStep(x_seq)
    \/ \E x_seq \in XSeqs : PSNMultiStep(x_seq)
    \/ \E x \in Inputs : Materialize(x)

Spec == Init /\ [][Next]_vars

\* ---------------------------------------------------------- properties
RECURSIVE Sequential(_,_,_)
\* Len(x_seq) sequential single-step calls on the elements of x_seq, from memories self:
\* the memories left, the spikes returned and the potential left by each call
Sequential(c, self, x_seq) ==
    IF x_seq = <<>> THEN [self |-> self, y |-> <<>>, v |-> <<>>]
    ELSE LET r == single_step_forward(c, self, x_seq[1], 1)
             rest == Sequential(c, r.self, Tail(x_seq))
         IN  [self |-> rest.self, y |-> <<r.y>> \o rest.y, v |-> <<r.self.v.d>> \o rest.v]

\* the neuron has store_v_seq: it is BaseNode's multi_step_forward or an override that keeps it
HasVSeq == cfg.kind \in {"IF", "LIF", "KLIF", "Izhikevich"}
\* the last call started on the memories the constructor registered
Fresh == call.pre = InitMemories(cfg)
\* some element fired and some element did not, in the single step of the last call
FiredAndNot == (\E i \in Idx : call.y[1][i] = One) /\ (\E i \in Idx : call.y[1][i] = 0)

\* C1: for an IFNode or LIFNode with store_v_seq enabled, a multi-step call on x_seq returns
\* the spikes, in order, and leaves the potential v that Len(x_seq) sequential single-step
\* calls on the same inputs from the same memories return and leave, in training mode and
\* in evaluation mode.
C1_MultiStepEqualsSequentialSingleSteps ==
    (call.op = "multi" /\ cfg.kind \in {"IF", "LIF"} /\ cfg.store_v_seq) =>
        LET s == Sequential(cfg, call.pre, call.x)
        IN  call.y = s.y /\ node.v = s.self.v
\* an evaluation-mode LIFNode ran at least three steps from a tensor v and fired after step 1
C1_Witness ==
    /\ call.op = "multi" /\ cfg.kind = "LIF" /\ cfg.store_v_seq /\ ~cfg.training
    /\ call.pre.v.isTensor /\ Len(call.x) >= 3
    /\ \E t \in 2..Len(call.y) : \E i \in Idx : call.y[t][i] = One
    /\ \E t \in 1..Len(call.y) : \E i \in Idx : call.y[t][i] = 0

\* the phases of a trace without the float-to-tensor conversions, as <<phase, step, of>>
Phases(tr) ==
    LET kept == SelectSeq(tr, LAMBDA e : e.ph # "mat")
    IN  [j \in 1..Len(kept) |-> <<kept[j].ph, kept[j].t, kept[j].of>>]
\* T steps of charge, fire, reset, each reset consuming the spike of its own step
ChargeFireReset(T) ==
    [j \in 1..(3 * T) |-> <<(<<"charge", "fire", "reset">>)[((j - 1) % 3) + 1],
                            ((j - 1) \div 3) + 1, ((j - 1) \div 3) + 1>>]
\* T steps of charge, reset, fire, each reset consuming the spike of the step before
ChargeResetFire(T) ==
    [j \in 1..(3 * T) |-> <<(<<"charge", "reset", "fire">>)[((j - 1) % 3) + 1],
                            ((j - 1) \div 3) + 1,
                            IF (j - 1) % 3 = 1 THEN (j - 1) \div 3 ELSE ((j - 1) \div 3) + 1>>]

\* C2 as stated: in every neuron variant every step of a call runs charge, fire, reset in
\* that order, the reset consuming the spike fired in the same step, the last step included.
C2_EveryVariantChargeFireReset ==
    (call.op \in {"single", "multi"} /\ ~call.raised) =>
        Phases(call.tr) = ChargeFireReset(Len(call.y))
\* C2: in every variant but GatedLIFNode every step of a call runs charge, fire, reset in
\* that order and the reset consumes the spike of its own step, the last step included;
\* GatedLIFNode runs charge, reset, fire, its reset consuming the spike of the step before
\* (zeros in step 1), so that the spike of the last step is not reset inside the call.
C2_ChargeFireResetButGated ==
    (call.op \in {"single", "multi"} /\ ~call.raised) =>
        IF cfg.kind = "GatedLIF"
        THEN Phases(call.tr) = ChargeResetFire(Len(call.y))
        ELSE Phases(call.tr) = ChargeFireReset(Len(call.y))
\* a GatedLIFNode returned from its T steps having fired in the last one
C2_Witness ==
    /\ call.op = "multi" /\ cfg.kind = "GatedLIF" /\ ~call.raised
    /\ Len(call.y) = cfg.T
    /\ \E i \in Idx : call.y[cfg.T][i] = One

\* the potential the reset of the single step of the last call found: the potential the
\* call of neuronal_fire left, which is the potential the fire read wherever the fire
\* assigns nothing
BeforeReset ==
    LET f == SelectSeq(call.tr, LAMBDA e : e.ph = "fire")[1]
    IN  IF f.post = <<>> THEN call.h ELSE f.post.v.d

\* C3 as stated: after a single step with hard reset every element that fired has v equal
\* to v_reset and every element that did not fire has the v it had before the reset.
C3_HardResetAllConfigurations ==
    (call.op = "single" /\ ~cfg.soft) =>
        \A i \in Idx : IF call.y[1][i] = One THEN node.v.d[i] = cfg.v_reset
                       ELSE node.v.d[i] = BeforeReset[i]
\* C3: after a single step with hard reset every element that fired has v equal to v_reset;
\* every element that did not fire has the v it had before the reset, except in a KLIFNode
\* with scale_reset, where it has that v divided by the parameter k (the same v while k is 1).
C3_HardResetButScaled ==
    (call.op = "single" /\ ~cfg.soft) =>
        \A i \in Idx : IF call.y[1][i] = One THEN node.v.d[i] = cfg.v_reset
                       ELSE IF cfg.kind = "KLIF" /\ cfg.scale_reset
                            THEN node.v.d[i] = Div(BeforeReset[i], cfg.k)
                            ELSE node.v.d[i] = BeforeReset[i]
\* a hard-reset step of a KLIFNode with scale_reset and k = 2 in which one element fired
\* and another, of nonzero potential, did not
C3_Witness ==
    /\ call.op = "single" /\ ~cfg.soft /\ cfg.kind = "KLIF" /\ cfg.scale_reset /\ cfg.k # One
    /\ FiredAndNot
    /\ \E i \in Idx : call.y[1][i] = 0 /\ call.h[i] # cfg.v_reset

\* C4 as stated: after a single step with soft reset the potential is, element by element,
\* the potential the fire read minus spike times v_threshold.
C4_SoftResetAllConfigurations ==
    (call.op = "single" /\ cfg.soft) =>
        \A i \in Idx : node.v.d[i] = call.h[i] - Mul(call.y[1][i], cfg.v_threshold)
\* C4: after a single step with soft reset the potential is, element by element, the
\* potential the fire read minus spike times v_threshold, divided by the parameter k in a
\* KLIFNode with scale_reset (the same value while k is 1).  In an MPBN neuron with
\* normalize_residual the fire itself replaces the potential h of every element at or below
\* its threshold vth by (h - mu) / sigma * gamma + beta, and the reset subtracts from that.
C4_SoftResetButScaled ==
    (call.op = "single" /\ cfg.soft) =>
        \A i \in Idx :
            IF cfg.kind = "KLIF" /\ cfg.scale_reset
            THEN node.v.d[i] = Div(call.h[i] - Mul(call.y[1][i], cfg.v_threshold), cfg.k)
            ELSE IF cfg.kind = "MPBNLIF" /\ cfg.normalize_residual
                                        /\ call.h[i] <= node.vth.d[i]
            THEN node.v.d[i] = normalized_residual(call.h[i])
                               - Mul(call.y[1][i], cfg.v_threshold)
            ELSE node.v.d[i] = call.h[i] - Mul(call.y[1][i], cfg.v_threshold)
\* a soft-reset step of a KLIFNode with scale_reset and k = 2 in which one element fired
\* above the threshold and another did not fire
C4_Witness ==
    /\ call.op = "single" /\ cfg.soft /\ cfg.kind = "KLIF" /\ cfg.scale_reset /\ cfg.k # One
    /\ FiredAndNot
    /\ \E i \in Idx : call.y[1][i] = One /\ call.h[i] > cfg.v_threshold

\* the first n elements of the sequence that repeats the tensor x
Repeat(x, n) == [t \in 1..n |-> x]
\* the first n elements of the sequence D, Z, Z, ...
ThenZeros(n) == [t \in 1..n |-> IF t = 1 THEN InputD ELSE InputZ]
\* the spikes of element i, step by step
SpikesOf(i) == [t \in 1..Len(call.y) |-> call.y[t][i]]
\* the last call was IFNode(v_threshold=1., v_reset=0.), fresh, on 0.6, 0.6, 0.6, 0.6 (element 1)
IF_OnFourTimes06 ==
    /\ call.op = "multi" /\ cfg.kind = "IF" /\ ~cfg.soft /\ cfg.v_reset = 0
    /\ cfg.v_threshold = One /\ Fresh /\ call.x = Repeat(InputA, 4)

\* C5 as stated: an IFNode with v_threshold = 1.0 and hard reset to 0.0, fresh, on the input
\* 0.6, 0.6, 0.6, 0.6 emits 0, 1, 0, 1 and ends with v = 0.2.
C5_IFScenarioEndsAt02 ==
    IF_OnFourTimes06 => (SpikesOf(1) = <<0, One, 0, One>> /\ node.v.d[1] = Lit(200))
\* C5: an IFNode with v_threshold = 1.0 and hard reset to 0.0, fresh, on the input
\* 0.6, 0.6, 0.6, 0.6 emits 0, 1, 0, 1 and ends with v = 0.0: the spike of step 4 resets it.
C5_IFScenarioEndsAtReset ==
    IF_OnFourTimes06 => (SpikesOf(1) = <<0, One, 0, One>> /\ node.v.d[1] = cfg.v_reset)
\* the scenario ran in evaluation mode
C5_Witness == IF_OnFourTimes06 /\ ~cfg.training /\ node.v.isTensor

\* the last call was LIFNode(tau=2., decay_input=True, v_threshold=1., v_reset=None), fresh,
\* on the first n of 1.0, 0.0, 0.0 (element 2)
LIF_OnOneThenZeros(n) ==
    /\ call.op = "multi" /\ cfg.kind = "LIF" /\ cfg.soft /\ cfg.decay_input
    /\ cfg.tau = 2 * One /\ cfg.v_threshold = One /\ Fresh /\ call.x = ThenZeros(n)

\* C6: a LIFNode with tau = 2.0, decay_input, v_threshold = 1.0 and soft reset, fresh, on the
\* input 1.0, 0.0, 0.0 never fires and has v = 0.5 after step 1, 0.25 after step 2 and
\* 0.125 after step 3.
C6_LIFScenarioDecays ==
    /\ LIF_OnOneThenZeros(1) => (SpikesOf(2) = <<0>> /\ node.v.d[2] = Lit(500))
    /\ LIF_OnOneThenZeros(2) => (SpikesOf(2) = <<0, 0>> /\ node.v.d[2] = Lit(250))
    /\ LIF_OnOneThenZeros(3) =>
          /\ SpikesOf(2) = <<0, 0, 0>> /\ node.v.d[2] = Lit(125)
          /\ cfg.store_v_seq =>
                [t \in 1..3 |-> node.v_seq[t][2]] = <<Lit(500), Lit(250), Lit(125)>>
\* the three steps ran in training mode with v_seq stored
C6_Witness == LIF_OnOneThenZeros(3) /\ cfg.training /\ cfg.store_v_seq /\ Len(node.v_seq) = 3

\* C7 as stated: the evaluation-mode call of an IFNode or LIFNode returns the spikes and
\* leaves the potential that the generic path (v_float_to_tensor, neuronal_charge,
\* neuronal_fire with the Heaviside step, neuronal_reset, step by step) returns and leaves
\* on the same inputs from the same memories, in every reset mode, with and without
\* decay_input.
C7_EvalPathEqualsGenericPath ==
    (call.op \in {"single", "multi"} /\ cfg.kind \in {"IF", "LIF"} /\ ~cfg.training) =>
        LET g == Sequential([cfg EXCEPT !.training = TRUE], call.pre, call.x)
        IN  call.y = g.y /\ node.v = g.self.v

Filled(x, val) == AsTensor([i \in DOMAIN x |-> val])
\* C9: v_float_to_tensor (and w_float_to_tensor, c_float_to_tensor) on a float placeholder
\* leaves a tensor shaped like the input that holds the placeholder value everywhere
\* (v_reset with hard reset, 0 with soft reset, for v); on a tensor it changes nothing,
\* whatever the input; it touches no other memory.
C9_MaterializationIdempotent ==
    (call.op = "mat") =>
        /\ node.v = IF call.pre.v.isTensor THEN call.pre.v
                    ELSE Filled(call.x[1], IF cfg.soft THEN 0 ELSE cfg.v_reset)
        /\ node.w = IF call.pre.w.isTensor \/ cfg.kind # "Izhikevich" THEN call.pre.w
                    ELSE Filled(call.x[1], w_rest)
        /\ node.c = IF call.pre.c.isTensor \/ cfg.kind # "CLIF" THEN call.pre.c
                    ELSE Filled(call.x[1], 0)
        /\ node.u = call.pre.u /\ node.v_seq = call.pre.v_seq
\* the methods were called on a tensor v whose elements differ, with an input that is not v
C9_Witness ==
    /\ call.op = "mat" /\ call.pre.v.isTensor
    /\ \E i, j \in Idx : call.pre.v.d[i] # call.pre.v.d[j]
    /\ call.x[1] # call.pre.v.d
    /\ node = call.pre

C11_HardResetBelowThreshold ==
    (call.op \in {"single", "multi"} /\ ~cfg.soft /\ ~call.raised) =>
        /\ \A i \in Idx : node.v.d[i] < cfg.v_threshold
        /\ \A t \in DOMAIN node.v_seq : \A i \in Idx : node.v_seq[t][i] < cfg.v_threshold

\* the number of events of phase ph in the trace tr
CountPhase(tr, ph) == Len(SelectSeq(tr, LAMBDA e : e.ph = ph))
\* element i was charged to at least 2 * v_threshold in the single step of the last call
Overshoot(i) == call.op = "single" /\ cfg.soft /\ call.h[i] >= 2 * cfg.v_threshold

FireCalls == SelectSeq(call.tr, LAMBDA e : e.ph = "fire" /\ e.pre # <<>>)

\* C13 as stated: in every variant a call of neuronal_fire leaves v and every other memory
\* as it found them.
C13_FireOnlyReads ==
    \A j \in DOMAIN FireCalls : FireCalls[j].post = FireCalls[j].pre
\* C13: a call of neuronal_fire leaves v and every other memory as it found them in every
\* variant but the MPBN neurons.  MPBNBaseNode.neuronal_fire assigns the threshold memory
\* vth when learnable_vth or fold_bn is set and, with normalize_residual, overwrites the
\* potential of every element at or below vth by its normalized residual; it leaves the
\* other memories, and without these options v and vth, as it found them.
C13_FireOnlyReadsButMPBN ==
    \A j \in DOMAIN FireCalls :
        LET e == FireCalls[j]
        IN  IF cfg.kind # "MPBNLIF" THEN e.post = e.pre
            ELSE /\ e.post.w = e.pre.w /\ e.post.c = e.pre.c /\ e.post.u = e.pre.u
                 /\ e.post.v_seq = e.pre.v_seq
                 /\ ~(cfg.learnable_vth \/ cfg.fold_bn) => e.post.vth = e.pre.vth
                 /\ \A i \in Idx :
                       e.post.v.d[i] =
                           IF cfg.normalize_residual /\ e.pre.v.d[i] <= e.post.vth.d[i]
                           THEN normalized_residual(e.pre.v.d[i]) ELSE e.pre.v.d[i]
\* the fire of a re-parameterized MPBN neuron with normalize_residual returned a spike for
\* one element and changed the potential of another
C13_Witness ==
    /\ cfg.kind = "MPBNLIF" /\ cfg.normalize_residual /\ call.op = "single"
    /\ \E i \in Idx : call.y[1][i] = One
    /\ \E i \in Idx : call.y[1][i] = 0 /\ FireCalls[1].post.v.d[i] # FireCalls[1].pre.v.d[i]

\* --------------------------------------- backends and the kernel cache
\* A second state machine over the same variables follows one neuron through calls of
\* forward and assignments of its attributes.  There cfg carries, beside the constructor
\* arguments above, the attributes backend ('torch', 'cupy'), step_mode ('s', 'm'),
\* detach_reset and surrogate_function (its cuda_codes), and node carries, beside the
\* memories, the attributes forward_kernel and backward_kernel.
MaxOps == 3


\* self.forward_kernel = None, self.backward_kernel = None
NoKernel == [cls |-> "None"]
\* a kernel object: its class, the keyword arguments it was constructed with, and born,
\* the number of the operation that constructed it, which tells apart two objects of one
\* class with equal arguments
Kernel(cls, kwargs, n) == [cls |-> cls, attrs |-> kwargs, born |-> n]
\* check_attributes of the kernel classes of auto_cuda: every keyword argument equals the
\* attribute of that name
check_attributes(kernel, kwargs) == \A f \in DOMAIN kwargs : kernel.attrs[f] = kwargs[f]

\* faulty variant of supported_backends: ParametricLIFNode claims 'cupy' in step mode 's'
supported_backends_mut(kind, step_mode) ==
    IF kind = "KLIF" THEN {"torch"} ELSE {"torch", "cupy"}
\* IFNode.supported_backends, LIFNode.supported_backends,
\* ParametricLIFNode.supported_backends; KLIFNode defines none and inherits
\* base.MemoryModule.supported_backends, ('torch',)
supported_backends(kind, step_mode) ==
    CASE kind \in {"IF", "LIF"} -> {"torch", "cupy"}
      [] kind = "PLIF" -> IF step_mode = "s" THEN {"torch"} ELSE {"torch", "cupy"}
      [] kind = "KLIF" -> {"torch"}

\* the keyword arguments of the forward kernel: hard_reset, dtype and, but for IFNode,
\* decay_input
forward_kwargs(c, dtype) ==
    IF c.kind = "IF" THEN [hard_reset |-> ~c.soft, dtype |-> dtype]
    ELSE [hard_reset |-> ~c.soft, dtype |-> dtype, decay_input |-> c.decay_input]
\* the keyword arguments of the backward kernel
backward_kwargs(c, dtype) ==
    Merge(forward_kwargs(c, dtype),
          [surrogate_function |-> c.surrogate_function, detach_reset |-> c.detach_reset])

\* faulty variant of cached_kernel: a kernel is constructed on every call
cached_kernel_mut(kernel, kwargs, cls, n) == Kernel(cls, kwargs, n)
\* if self.forward_kernel is None or not self.forward_kernel.check_attributes(...):
\*     self.forward_kernel = ...Kernel(...); the same statement for backward_kernel
cached_kernel(kernel, kwargs, cls, n) ==
    IF kernel = NoKernel \/ ~check_attributes(kernel, kwargs) THEN Kernel(cls, kwargs, n)
    ELSE kernel

\* the two cache statements of the 'cupy' branch, in operation n, dtype being 'float' or
\* 'half2'; the kernel classes are the single-step ones (FP, BP) in step mode 's' and the
\* multi-step ones (FPTT, BPTT) in step mode 'm'
cache_kernels(c, self, dtype, n) ==
    [self EXCEPT
        !.forward_kernel = cached_kernel(self.forward_kernel, forward_kwargs(c, dtype),
                                         <<c.kind, "FP", c.step_mode>>, n),
        !.backward_kernel = cached_kernel(self.backward_kernel, backward_kwargs(c, dtype),
                                          <<c.kind, "BP", c.step_mode>>, n)]

\* What forward returns: the attributes it leaves, the spikes, the path it ran ("torch":
\* the generic loop, "jit": the fused evaluation functions, "cupy": the kernels) and the
\* exception it raised, "" for none.
Ran(path, r) == [self |-> r.self, y |-> r.y, path |-> path, err |-> ""]
Raise(self, err) == [self |-> self, y |-> <<>>, path |-> "", err |-> err]

\* The statements of a branch before the step itself leave [self, err]: the attributes and
\* the exception raised, "" for none.
\* faulty variant of cupy_prepare: v is converted before the dtype is looked at
cupy_prepare_mut(c, self, x, xdtype, n) ==
    IF xdtype \notin {"float", "half"}
    THEN [self |-> v_float_to_tensor(self, x), err |-> "NotImplementedError"]
    ELSE [self |-> v_float_to_tensor(
                       cache_kernels(c, self, IF xdtype = "float" THEN "float" ELSE "half2", n),
                       x),
          err |-> ""]
\* the branch `self.backend == 'cupy'` of IFNode.single_step_forward,
\* IFNode.multi_step_forward, LIFNode.single_step_forward, LIFNode.multi_step_forward and
\* ParametricLIFNode.multi_step_forward down to self.v_float_to_tensor, on an input of
\* dtype xdtype ("float": torch.float, "half": torch.half, "double": torch.double)
cupy_prepare(c, self, x, xdtype, n) ==
    IF xdtype \notin {"float", "half"} THEN [self |-> self, err |-> "NotImplementedError"]
    ELSE [self |-> v_float_to_tensor(
                       cache_kernels(c, self, IF xdtype = "float" THEN "float" ELSE "half2", n),
                       x),
          err |-> ""]

\* the path forward takes, "" where it raises ValueError(self.backend).  IFNode and
\* LIFNode look at the backend in training mode only; ParametricLIFNode's
\* multi_step_forward looks at it in both modes; its single_step_forward, and both
\* methods of KLIFNode, are BaseNode's.
path_of(c) ==
    IF (c.kind \in {"IF", "LIF"} /\ c.training) \/ (c.kind = "PLIF" /\ c.step_mode = "m")
    THEN IF c.backend \in {"torch", "cupy"} THEN c.backend ELSE ""
    ELSE IF c.kind \in {"IF", "LIF"} THEN "jit" ELSE "torch"

\* the step itself on the path p, once the statements before it have left s.  On the
\* paths "torch" and "jit" it is the single_step_forward or multi_step_forward of the
\* sections above (x_seq has one step in step mode 's'); on the path "cupy" it is the
\* ATGF of auto_cuda and the statements that store v_seq and v, whose forward kernel
\* computes the charge, fire and reset of the generic loop.
step_on(p, s, c, x_seq) ==
    IF s.err # "" THEN Raise(s.self, s.err)
    ELSE IF c.step_mode = "s" THEN Ran(p, Single(single_step_forward(c, s.self, x_seq[1], 1)))
    ELSE Ran(p, multi_step_forward(c, s.self, x_seq))

\* forward of the neuron: single_step_forward or multi_step_forward by step_mode
forward(c, self, x_seq, xdtype, n) ==
    step_on(path_of(c),
            IF path_of(c) = "cupy" THEN cupy_prepare(c, self, x_seq[1], xdtype, n)
            ELSE [self |-> self, err |-> IF path_of(c) = "" THEN "ValueError" ELSE ""],
            c, x_seq)

\* the setter of base.MemoryModule.backend: a value that supported_backends does not
\* hold for the step mode is refused with NotImplementedError
backend_setter(c, value) ==
    IF value \in supported_backends(c.kind, c.step_mode) THEN "" ELSE "NotImplementedError"
\* the setter of base.StepModule.step_mode: a step mode for which supported_backends does
\* not hold the backend is refused the same way
step_mode_setter(c, value) ==
    IF c.backend \in supported_backends(c.kind, value) THEN "" ELSE "NotImplementedError"

\* KLIFNode.__init__ raises for backend 'cupy' before anything else; BaseNode.__init__
\* assigns self.step_mode, then self.backend
construct(c) ==
    IF c.kind = "KLIF" /\ c.backend = "cupy" THEN "NotImplementedError"
    ELSE backend_setter(c, c.backend)

\* the attributes a constructor call asks for: IFNode(), LIFNode(tau=3.),
\* ParametricLIFNode(init_tau=2.), KLIFNode(tau=2.), each with v_threshold=1., v_reset=0.,
\* detach_reset=False, a sigmoid surrogate, in training mode
Requests ==
    {Merge(Cfg(kd, TRUE, FALSE, 0, One, TRUE, IF kd = "LIF" THEN 3 * One ELSE 2 * One,
               FALSE, FALSE, One),
           [backend |-> be, step_mode |-> sm, detach_reset |-> FALSE,
            surrogate_function |-> "sigmoid"]) :
        kd \in {"IF", "LIF", "PLIF", "KLIF"}, be \in {"torch", "cupy", "lava"},
        sm \in {"s", "m"}}

\* no neuron: the constructor raised
NoNode == [constructed |-> FALSE]
Op(op, arg, xdtype, r) ==
    [op |-> op, pre |-> node, precfg |-> cfg, arg |-> arg, xdtype |-> xdtype, y |-> r.y,
     path |-> r.path, err |-> r.err]

InitBackend ==
    /\ cfg \in Requests
    /\ node = IF construct(cfg) = ""
              THEN Merge(InitMemories(cfg),
                         [forward_kernel |-> NoKernel, backward_kernel |-> NoKernel])
              ELSE NoNode
    /\ call = [op |-> "init", pre |-> NoNode, precfg |-> cfg, arg |-> <<>>,
               xdtype |-> "", y |-> <<>>, path |-> "", err |-> construct(cfg)]
    /\ ncalls = 0

\* the input of a call: one tensor in step mode 's', a sequence of two in step mode 'm'
XOf(step_mode) == IF step_mode = "s" THEN <<InputA>> ELSE <<InputA, InputD>>

\* forward returned or raised r: the neuron holds the attributes r left
Forwarded(x_seq, xdtype, r) ==
    /\ node' = r.self
    /\ call' = Op("forward", x_seq, xdtype, r)
    /\ ncalls' = ncalls + 1
    /\ UNCHANGED cfg
\* the neuron is called on an input of dtype xdtype
Forward(xdtype) ==
    /\ node # NoNode /\ ncalls < MaxOps
    /\ Forwarded(XOf(cfg.step_mode), xdtype,
                 forward(cfg, node, XOf(cfg.step_mode), xdtype, ncalls + 1))

\* an assignment to an attribute returned (err = "") or raised
Assigned(op, field, value, err) ==
    /\ cfg' = IF err = "" THEN [cfg EXCEPT ![field] = value] ELSE cfg
    /\ call' = Op(op, <<field, value>>, "", Raise(node, err))
    /\ ncalls' = ncalls + 1
    /\ UNCHANGED node

\* neuron.backend = value
SetBackend(value) ==
    /\ node # NoNode /\ ncalls < MaxOps /\ value # cfg.backend
    /\ Assigned("set_backend", "backend", value, backend_setter(cfg, value))

\* neuron.step_mode = value
SetStepMode(value) ==
    /\ node # NoNode /\ ncalls < MaxOps /\ value # cfg.step_mode
    /\ Assigned("set_step_mode", "step_mode", value, step_mode_setter(cfg, value))

\* neuron.train() / neuron.eval(), neuron.detach_reset = ..., neuron.surrogate_function =
\* ..., neuron.decay_input = ..., neuron.v_reset = None / 0.: plain attributes, the
\* assignment of another value than the attribute holds
SetAttr(field, value) ==
    /\ node # NoNode /\ ncalls < MaxOps /\ value # cfg[field]
    /\ field = "decay_input" => cfg.kind # "IF"
    /\ Assigned("set", field, value, "")

NextBackend ==
    \/ \E xdtype \in {"float", "half", "double"} : Forward(xdtype)
    \/ \E value \in {"torch", "cupy", "lava"} : SetBackend(value)
    \/ \E value \in {"s", "m"} : SetStepMode(value)
    \/ \E field \in {"training", "detach_reset", "decay_input", "soft"}, value \in BOOLEAN :
          SetAttr(field, value)
    \/ \E value \in {"sigmoid", "atan"} : SetAttr("surrogate_function", value)

SpecBackend == InitBackend /\ [][NextBackend]_vars

\* the last operation was a call of forward that ran the kernels
CupyCall == call.op = "forward" /\ call.path = "cupy"
\* the keyword arguments the last call asked of the kernel in the attribute slot
Wanted(slot) ==
    IF slot = "forward_kernel"
    THEN forward_kwargs(cfg, IF call.xdtype = "float" THEN "float" ELSE "half2")
    ELSE backward_kwargs(cfg, IF call.xdtype = "float" THEN "float" ELSE "half2")
KernelSlots == {"forward_kernel", "backward_kernel"}

\* C14: a call on the 'cupy' path leaves in forward_kernel and in backward_kernel a kernel
\* of the arguments the call asks for (reset mode, dtype, decay_input; for the backward
\* kernel detach_reset and the surrogate code as well).  Where the cached kernel has
\* these arguments it is the very same object and nothing is constructed; where one of
\* them differs, or nothing was cached, a kernel constructed in this call takes its
\* place.  With the whole signature equal both kernels are kept; with any field of it
\* different the backward kernel at least is fresh.  No other operation touches the cache.
C14_KernelCache ==
    /\ CupyCall =>
          \A slot \in KernelSlots :
              /\ node[slot].attrs = Wanted(slot)
              /\ IF call.pre[slot] # NoKernel /\ call.pre[slot].attrs = Wanted(slot)
                 THEN node[slot] = call.pre[slot] /\ node[slot].born < ncalls
                 ELSE node[slot].born = ncalls /\ node[slot] # call.pre[slot]
    /\ (CupyCall /\ call.pre.backward_kernel # NoKernel) =>
          IF call.pre.backward_kernel.attrs = Wanted("backward_kernel")
          THEN \A slot \in KernelSlots : node[slot] = call.pre[slot]
          ELSE node.backward_kernel.born = ncalls
    /\ (call.op \notin {"init", "forward"} \/ (call.op = "forward" /\ call.path # "cupy")) =>
          \A slot \in KernelSlots : node[slot] = call.pre[slot]
\* after a call that cached both kernels detach_reset was assigned another value: the next
\* call with the same dtype keeps the forward kernel, the very same object, and puts a
\* fresh backward kernel in place of the cached one
C14_Witness ==
    /\ CupyCall
    /\ call.pre.forward_kernel # NoKernel /\ call.pre.backward_kernel # NoKernel
    /\ node.forward_kernel = call.pre.forward_kernel
    /\ call.pre.backward_kernel.attrs.detach_reset # cfg.detach_reset
    /\ call.pre.backward_kernel.attrs.dtype = node.backward_kernel.attrs.dtype
    /\ node.backward_kernel.born = ncalls
    /\ node.backward_kernel.attrs.detach_reset = cfg.detach_reset

\* the last operation asked for the backend value of the step mode mode
Asked(value, mode) ==
    \/ call.op = "init" /\ call.precfg.backend = value /\ call.precfg.step_mode = mode
    \/ call.op = "set_backend" /\ call.arg[2] = value /\ call.precfg.step_mode = mode
    \/ call.op = "set_step_mode" /\ call.precfg.backend = value /\ call.arg[2] = mode
\* the last operation asked for a backend the class does not support for the step mode
AskedUnsupported ==
    \E value \in {"torch", "cupy", "lava"}, mode \in {"s", "m"} :
        Asked(value, mode) /\ value \notin supported_backends(cfg.kind, mode)

CupyCallOnOtherDtype ==
    /\ call.op = "forward" /\ path_of(cfg) = "cupy"
    /\ call.xdtype \notin {"float", "half"}

C17_NoStepOnRefusedArguments ==
    (cfg.kind \in {"QIF", "Izhikevich"} /\ ~cfg.soft /\ call.op \in {"single", "multi"}) =>
        (cfg.v_rest >= cfg.v_reset /\ cfg.v_threshold > cfg.v_reset)

\* the last call was the multi-step call of a neuron constructed with a step count T:
\* GatedLIFNode(T=2) or MaskedPSN(T=2)
FixedHorizonCall ==
    \/ cfg.kind = "GatedLIF" /\ call.op = "multi"
    \/ cfg.kind = "MaskedPSN" /\ call.op = "psn"
\* C18 as stated: the multi-step call of a neuron with a fixed step count T on a sequence
\* whose length differs from T raises; it returns no spikes for a part of the sequence.
C18_LengthMismatchRaises ==
    (FixedHorizonCall /\ Len(call.x) # cfg.T) => (call.raised /\ call.y = <<>>)

\* ------------------------------------------------------- DSR training iterations
\* A third state machine over the same variables follows the training iterations of one
\* DSRIFNode or DSRLIFNode layer in NumWorkers worker processes: the forward call and the
\* backward pass of every worker, then the optimizer step.  There cfg is the layer (kind,
\* T, v_threshold, tau, delta_t, alpha, v_threshold_lower_bound,
\* v_threshold_grad_scaling) and the two facts of the run that backward reads, is_cuda
\* (v_threshold_grad.is_cuda) and device_count (torch.cuda.device_count()); node[w] is
\* worker w: where it is in the iteration (pc), the saved input inp and the grad_output
\* it was given, the input_grad and the local threshold gradient it computed, and the
\* v_threshold_grad it holds.
NumWorkers == 2
Workers == 1..NumWorkers

RECURSIVE SeqSum(_)
\* torch.sum of a vector
SeqSum(seq) == IF seq = <<>> THEN 0 ELSE seq[1] + SeqSum(Tail(seq))
\* torch.mean(data, 0), element i
mean0(data, i) == RoundNearestEven(SeqSum([t \in DOMAIN data |-> data[t][i]]), Len(data))

\* math.exp(-delta_t / tau) for DSRLIFNode(tau=2., delta_t=1.) and
\* DSRLIFNode(tau=2., delta_t=0.5)
dsr_decay(c) == IF c.delta_t = One THEN Lit(607) ELSE Lit(779)
RECURSIVE dsr_weight(_, _)
\* the weight exp(-1 / tau * (delta_t * T - ii * delta_t)) of the step that is n steps
\* before the last
dsr_weight(c, n) == IF n = 0 THEN One ELSE Mul(dsr_decay(c), dsr_weight(c, n - 1))
\* DSRLIFNode.weight_rate_spikes, element i
weight_rate_spikes(c, data, i) ==
    Div(SeqSum([t \in DOMAIN data |-> Mul(dsr_weight(c, Len(data) - t), data[t][i])]),
        SeqSum([t \in DOMAIN data |-> dsr_weight(c, Len(data) - t)]))

\* input_rate_coding, element i
input_rate_coding(c, inp, i) ==
    IF c.kind = "DSRIF" THEN mean0(inp, i) ELSE weight_rate_spikes(c, inp, i)
\* grad_output_coding, element i
grad_output_coding(c, grad_output, i) ==
    IF c.kind = "DSRIF" THEN mean0(grad_output, i) * c.T
    ELSE weight_rate_spikes(c, grad_output, i) * c.T
\* the threshold the rate is compared with: v_threshold, or v_threshold / delta_t * tau
rate_threshold(c) ==
    IF c.kind = "DSRIF" THEN c.v_threshold ELSE Mul(Div(c.v_threshold, c.delta_t), c.tau)

\* DSRIFFunction.backward: one element of input_grad at every step, from the rate and the
\* grad_output_coding of the element
DSRIF_input_grad(c, rate, goc) ==
    RoundNearestEven(IF rate < 0 \/ rate > c.v_threshold THEN 0 ELSE goc, c.T)
\* DSRLIFFunction.backward: the same
DSRLIF_input_grad(c, rate, goc) ==
    RoundNearestEven(IF rate > 0 /\ rate < rate_threshold(c) THEN Div(goc, c.tau) ELSE 0, c.T)
\* input_grad: the element values stacked T times
input_grad(c, inp, grad_output) ==
    [t \in 1..c.T |-> [i \in Idx |->
        IF c.kind = "DSRIF"
        THEN DSRIF_input_grad(c, input_rate_coding(c, inp, i),
                              grad_output_coding(c, grad_output, i))
        ELSE DSRLIF_input_grad(c, input_rate_coding(c, inp, i),
                               grad_output_coding(c, grad_output, i))]]
\* faulty variant of v_threshold_grad: an element whose rate equals the threshold keeps its
\* grad_output_coding in the sum
v_threshold_grad_mut(c, inp, grad_output) ==
    Mul(Mul(SeqSum([i \in Idx |-> IF input_rate_coding(c, inp, i) < rate_threshold(c) THEN 0
                                   ELSE grad_output_coding(c, grad_output, i)]),
            IF c.kind = "DSRIF" THEN One ELSE c.delta_t),
        c.v_threshold_grad_scaling)
\* v_threshold_grad before the all-reduce: torch.sum(v_threshold_grad) *
\* v_threshold_grad_scaling, in DSRLIFNode torch.sum(v_threshold_grad) * delta_t *
\* v_threshold_grad_scaling
v_threshold_grad(c, inp, grad_output) ==
    Mul(Mul(SeqSum([i \in Idx |-> IF input_rate_coding(c, inp, i) <= rate_threshold(c) THEN 0
                                   ELSE grad_output_coding(c, grad_output, i)]),
            IF c.kind = "DSRIF" THEN One ELSE c.delta_t),
        c.v_threshold_grad_scaling)

\* DSRIFNode(T=2, v_threshold=1.) and DSRLIFNode(T=2, v_threshold=1., tau=2.), with
\* delta_t=1. and v_threshold_grad_scaling=1. or with delta_t=0.5 and
\* v_threshold_grad_scaling=0.5 (DSRIFNode has no delta_t and reads none), in a run on the
\* CPU or on CUDA with one or two visible devices
\* MaxOptSteps bounds the optimizer steps of a run; cfg.opt_steps counts them and
\* cfg.written is the value the last one wrote into v_threshold (before any, the
\* constructor's)
MaxOptSteps == 1
DSRConfigs ==
    {c \in [kind : {"DSRIF", "DSRLIF"}, T : {2}, v_threshold : {One}, tau : {2 * One},
            delta_t : {One, Lit(500)}, v_threshold_grad_scaling : {One, Lit(500)},
            is_cuda : BOOLEAN, device_count : {1, 2}, alpha : {Lit(500)},
            v_threshold_lower_bound : {Lit(500)}, opt_steps : {0}, written : {One}] :
        c.delta_t = c.v_threshold_grad_scaling}
\* the asserts of DSRIFNode.__init__ and DSRLIFNode.__init__ on the arguments modelled
DSR_init(c) ==
    /\ c.v_threshold >= c.v_threshold_lower_bound
    /\ c.alpha > 0 /\ c.alpha <= One
    /\ c.v_threshold_lower_bound > 0
\* what an optimizer step may write into v_threshold: below zero, below the bound, the
\* bound, above it
OptimizerWrites == {0 - One, Lit(250), Lit(500), Lit(750), 2 * One}

\* no clamp: v_threshold is left as it is
clamp_v_threshold_mut(c) == c
\* self.v_threshold.copy_(F.relu(self.v_threshold - self.v_threshold_lower_bound) +
\* self.v_threshold_lower_bound): the layer after the clamp
clamp_v_threshold(c) ==
    [c EXCEPT !.v_threshold =
        relu(c.v_threshold - c.v_threshold_lower_bound) + c.v_threshold_lower_bound]

RECURSIVE DSR_spikes_mut(_, _, _, _)
\* faulty variant of the loop: the potential of an element that fired is set to zero
DSR_spikes_mut(c, x, t, mem) ==
    IF t > Len(x) THEN <<>>
    ELSE LET charged == IF c.kind = "DSRIF" THEN mem + x[t]
                        ELSE Mul(dsr_decay(c), mem) + Mul(One - dsr_decay(c), x[t])
             spike == IF charged >= Mul(c.alpha, c.v_threshold) THEN c.v_threshold ELSE 0
         IN  <<[spike |-> IF c.kind = "DSRIF" THEN spike ELSE Div(spike, c.delta_t),
                mem_potential |-> IF spike = 0 THEN charged ELSE 0]>>
                 \o DSR_spikes_mut(c, x, t + 1, IF spike = 0 THEN charged ELSE 0)
RECURSIVE DSR_spikes(_, _, _, _)
\* the loop of DSRIFFunction.forward and DSRLIFFunction.forward over the steps from t on,
\* for one element with membrane potential mem: the spike is v_threshold where the charged
\* potential is >= alpha * v_threshold, and DSRLIFNode appends spike / delta_t; every step
\* gives the spike appended and the mem_potential it leaves
DSR_spikes(c, x, t, mem) ==
    IF t > Len(x) THEN <<>>
    ELSE LET charged == IF c.kind = "DSRIF" THEN mem + x[t]
                        ELSE Mul(dsr_decay(c), mem) + Mul(One - dsr_decay(c), x[t])
             spike == IF charged >= Mul(c.alpha, c.v_threshold) THEN c.v_threshold ELSE 0
         IN  <<[spike |-> IF c.kind = "DSRIF" THEN spike ELSE Div(spike, c.delta_t),
                mem_potential |-> charged - spike]>>
                 \o DSR_spikes(c, x, t + 1, charged - spike)
\* DSRIFFunction.forward, DSRLIFFunction.forward: output of shape [T, N]
DSR_forward(c, inp) ==
    [t \in DOMAIN inp |-> [i \in Idx |->
        DSR_spikes(c, [u \in DOMAIN inp |-> inp[u][i]], 1, 0)[t].spike]]
\* the local mem_potential of the forward functions after each step, of shape [T, N]
DSR_mem_potential(c, inp) ==
    [t \in DOMAIN inp |-> [i \in Idx |->
        DSR_spikes(c, [u \in DOMAIN inp |-> inp[u][i]], 1, 0)[t].mem_potential]]
\* Saved inputs of shape [T, N], constant over the steps, in units of the rate threshold th:
\* element 1 carries 0, th / 2, -th / 2; element 2 carries th, 2 * th, th / 2; any further
\* element th / 2, 0, th
DSRInputs(th) ==
    {[t \in 1..2 |-> [i \in Idx |-> IF i = 1 THEN 0 ELSE IF i = 2 THEN th ELSE th \div 2]],
     [t \in 1..2 |-> [i \in Idx |-> IF i = 1 THEN th \div 2 ELSE IF i = 2 THEN 2 * th ELSE 0]],
     [t \in 1..2 |-> [i \in Idx |-> IF i = 1 THEN 0 - (th \div 2) ELSE IF i = 2 THEN th \div 2
                                    ELSE th]]}
\* grad_output of shape [T, N]: 1.0 everywhere, and 0.5 * t + 0.25 * i
DSRGrads ==
    {[t \in 1..2 |-> [i \in Idx |-> One]],
     [t \in 1..2 |-> [i \in Idx |-> t * Lit(500) + i * Lit(250)]]}

Idle == [pc |-> "idle", inp |-> <<>>, grad_output |-> <<>>, input_grad |-> <<>>, local |-> 0,
         v_threshold_grad |-> 0]
InitDSR ==
    /\ cfg \in {c \in DSRConfigs : DSR_init(c)}
    /\ node = [w \in Workers |-> Idle]
    /\ call = [op |-> "none", w |-> 0]
    /\ ncalls = 0

\* worker w did the step op
Did(op, w) ==
    /\ call' = [op |-> op, w |-> w]
    /\ ncalls' = ncalls + 1
    /\ UNCHANGED cfg

\* backward down to the test `v_threshold_grad.is_cuda and torch.cuda.device_count() != 1`:
\* with the test false backward returns input_grad and the local v_threshold_grad, with
\* the test true it enters dist.all_reduce
Computed(c, inp, grad_output, ig, vg) ==
    [pc |-> IF c.is_cuda /\ c.device_count # 1 THEN "all_reduce" ELSE "returned",
     inp |-> inp, grad_output |-> grad_output, input_grad |-> ig, local |-> vg,
     v_threshold_grad |-> vg]
\* multi_step_forward in worker w after the clamp has given the layer c: the function
\* saves inp, and the call returns output
Forwarded_DSR(w, c, inp) ==
    /\ cfg' = c
    /\ node' = [node EXCEPT ![w] = [Idle EXCEPT !.pc = "forwarded", !.inp = inp]]
    /\ call' = [op |-> "forward", w |-> w, v_threshold |-> c.v_threshold,
                output |-> DSR_forward(c, inp), mem_potential |-> DSR_mem_potential(c, inp)]
    /\ ncalls' = ncalls + 1
\* DSRIFNode.multi_step_forward, DSRLIFNode.multi_step_forward in worker w: the clamp of
\* v_threshold in place, then the function on x_seq, given in units of the rate threshold
\* of the clamped layer
ForwardDSR(w, inp) ==
    /\ node[w].pc = "idle"
    /\ Forwarded_DSR(w, clamp_v_threshold(cfg), inp)

\* worker w runs backward on the input its forward saved and on grad_output
Backward(w, grad_output) ==
    /\ node[w].pc = "forwarded"
    /\ node' = [node EXCEPT ![w] = Computed(cfg, node[w].inp, grad_output,
                                            input_grad(cfg, node[w].inp, grad_output),
                                            v_threshold_grad(cfg, node[w].inp,
                                                             grad_output))]
    /\ Did("backward", w)

\* optimizer.step() after the backward pass has returned in every worker: it writes
\* value into v_threshold, and the next iteration begins
OptimizerStep(value) ==
    /\ \A w \in Workers : node[w].pc = "returned"
    /\ cfg.opt_steps < MaxOptSteps
    /\ cfg' = [cfg EXCEPT !.v_threshold = value, !.written = value,
                          !.opt_steps = cfg.opt_steps + 1]
    /\ node' = [w \in Workers |-> Idle]
    /\ call' = [op |-> "optimizer_step", w |-> 0]
    /\ ncalls' = ncalls + 1

\* dist.all_reduce(v_threshold_grad, op=dist.ReduceOp.SUM), a collective: once every
\* worker has entered it, each holds the sum of the local gradients and backward returns
AllReduce ==
    /\ \A w \in Workers : node[w].pc = "all_reduce"
    /\ node' = [w \in Workers |->
                  [node[w] EXCEPT !.pc = "returned",
                                  !.v_threshold_grad =
                                      SeqSum([u \in Workers |-> node[u].local])]]
    /\ Did("all_reduce", 0)

\* dist.all_reduce raises in worker w: the except clause raises RuntimeWarning and
\* backward returns nothing
AllReduceFails(w) ==
    /\ node[w].pc = "all_reduce"
    /\ node' = [node EXCEPT ![w].pc = "raised"]
    /\ Did("all_reduce_fails", w)

NextDSR ==
    \/ \E w \in Workers, inp \in DSRInputs(rate_threshold(clamp_v_threshold(cfg))) :
          ForwardDSR(w, inp)
    \/ \E w \in Workers, grad_output \in DSRGrads : Backward(w, grad_output)
    \/ \E value \in OptimizerWrites : OptimizerStep(value)
    \/ AllReduce
    \/ \E w \in Workers : AllReduceFails(w)

SpecDSR == InitDSR /\ [][NextDSR]_vars

\* worker w has run backward on element i with this rate
RateOf(w, i) == input_rate_coding(cfg, node[w].inp, i)
\* the averaged output gradient of element i at each of the T steps: grad_output_coding / T,
\* divided by tau as well in DSRLIFNode
AveragedGrad(w, i) ==
    RoundNearestEven(IF cfg.kind = "DSRIF" THEN grad_output_coding(cfg, node[w].grad_output, i)
                     ELSE Div(grad_output_coding(cfg, node[w].grad_output, i), cfg.tau),
                     cfg.T)

\* C19 as stated: in the backward pass of DSRIFNode and DSRLIFNode an element whose rate
\* is exactly 0 or exactly the threshold gets the input gradient 0 at every step, as does
\* every element outside the band; an element whose rate is strictly between 0 and the
\* threshold gets the averaged output gradient at each of the T steps.
C19_BoundaryHasZeroGradient ==
    \A w \in Workers : node[w].pc \notin {"idle", "forwarded"} =>
        \A i \in Idx, t \in 1..cfg.T :
            node[w].input_grad[t][i] =
                IF RateOf(w, i) > 0 /\ RateOf(w, i) < rate_threshold(cfg)
                THEN AveragedGrad(w, i) ELSE 0

\* C20 as stated: once the workers of a run have returned from backward, the threshold
\* gradient each of them returned is the sum of the local threshold gradients of all of
\* them; a worker whose all-reduce failed has raised and returned nothing.
C20_ThresholdGradientIsSummed ==
    \A w \in Workers :
        (node[w].pc = "returned" /\ \A u \in Workers : node[u].pc \in {"returned", "raised"}) =>
            node[w].v_threshold_grad = SeqSum([u \in Workers |-> node[u].local])

\* ------------------------------------------------------- DSR threshold clamp
\* the value the clamp makes of what the optimizer last wrote
ClampOfWritten ==
    relu(cfg.written - cfg.v_threshold_lower_bound) + cfg.v_threshold_lower_bound
\* C21: the DSR threshold is replaced by max(vth - bound, 0) + bound at the start of every
\* forward call, so every forward simulation and every backward pass reads a v_threshold
\* that is that clamp of what the optimizer wrote and is >= v_threshold_lower_bound; only
\* between an optimizer step and the next forward call does v_threshold hold the value the
\* optimizer wrote.
C21_ThresholdClampedInForward ==
    IF call.op = "optimizer_step"
    THEN cfg.v_threshold = cfg.written /\ \A w \in Workers : node[w].pc = "idle"
    ELSE /\ cfg.v_threshold = ClampOfWritten
         /\ cfg.v_threshold >= cfg.v_threshold_lower_bound
         /\ call.op = "forward" =>
                /\ call.v_threshold = cfg.v_threshold
                /\ \A t \in DOMAIN call.output : \A i \in Idx :
                       call.output[t][i] \in {0, Div(cfg.v_threshold, IF cfg.kind = "DSRIF"
                                                     THEN One ELSE cfg.delta_t)}
\* a backward pass has returned in an iteration that began with the optimizer writing a
\* value below the bound
C21_Witness ==
    /\ cfg.opt_steps > 0 /\ cfg.written < cfg.v_threshold_lower_bound
    /\ call.op \in {"backward", "all_reduce"}
    /\ \E w \in Workers : node[w].pc = "returned"
\* C21 as stated: in every state, those after an optimizer step included, v_threshold >=
\* v_threshold_lower_bound.
C21_AlwaysAboveBound == cfg.v_threshold >= cfg.v_threshold_lower_bound
\* ------------------------------------- OTTTLIFNode, SLTTLIFNode: online training
\* A fourth state machine over the same variables follows one OTTTLIFNode or SLTTLIFNode
\* through single-step calls, reset() and train()/eval().  There cfg is the neuron (kind,
\* the constructor arguments, self.training); node holds the buffers v and trace
\* (NoBuffer where the attribute does not exist) and, for each, the set of steps whose
\* input its autograd graph reaches (v_hist, trace_hist); call is the last call, the
\* memories it found (pre) and the calls made since the last reset (since); ncalls counts
\* the single-step calls.
MaxOnlineSteps == 3
NoBuffer == [isTensor |-> FALSE, d |-> <<>>]
\* __init__ of both classes: LIFNode.__init__, then self._memories.pop('v')
OnlineConstructed == [v |-> NoBuffer, trace |-> NoBuffer, v_hist |-> {}, trace_hist |-> {}]

\* faulty variant of OTTTLIFNode.reset: v is kept
OTTTLIFNode_reset_mut(self) == [self EXCEPT !.trace = NoBuffer, !.trace_hist = {}]
\* OTTTLIFNode.reset: super().reset() finds no memory; del self.v, del self.trace
OTTTLIFNode_reset(self) ==
    [self EXCEPT !.v = NoBuffer, !.v_hist = {}, !.trace = NoBuffer, !.trace_hist = {}]
\* SLTTLIFNode.reset: del self.v
SLTTLIFNode_reset(self) == [self EXCEPT !.v = NoBuffer, !.v_hist = {}]

\* if not hasattr(self, 'v'): register_buffer('v', zeros_like(x)) or ones_like(x) * v_reset
register_v(c, self, x) ==
    IF self.v # NoBuffer THEN self
    ELSE [self EXCEPT !.v = full_like(x, IF c.soft THEN 0 ELSE Mul(One, c.v_reset)),
                      !.v_hist = {}]
\* if not hasattr(self, 'trace'): register_buffer('trace', zeros_like(x))
register_trace(self, x) ==
    IF self.trace # NoBuffer THEN self
    ELSE [self EXCEPT !.trace = AsTensor(zeros_like(x)), !.trace_hist = {}]

\* faulty variant of the charge: self.v is not detached
OTTTLIFNode_neuronal_charge_mut(c, self, x, t) ==
    [LIFNode_neuronal_charge(c, self, x) EXCEPT !.v_hist = @ \cup {t}]
\* OTTTLIFNode.neuronal_charge, SLTTLIFNode.neuronal_charge: self.v = self.v.detach(), then
\* the charge of LIFNode on the input of step t
OTTTLIFNode_neuronal_charge(c, self, x, t) ==
    [LIFNode_neuronal_charge(c, [self EXCEPT !.v_hist = {}], x) EXCEPT !.v_hist = @ \cup {t}]

\* faulty variant of track_trace: the trace does not decay
track_trace_mut(spike, trace, tau) == Elementwise(LAMBDA i : trace[i] + spike[i])
\* OTTTLIFNode.track_trace: trace = trace * (1. - 1. / tau) + spike
track_trace(spike, trace, tau) ==
    Elementwise(LAMBDA i : Mul(trace[i], OneMinusInvTau(tau)) + spike[i])

\* What a single-step call returns and leaves: the memories self, the spike, the trace
\* returned with it (NoBuffer where the call returns the spike alone), and the steps whose
\* input the autograd graph of the spike reaches.
OnlineRet(self, spike, trace, hist) ==
    [self |-> self, spike |-> spike, trace |-> trace, hist |-> hist]
\* self.trace = self.track_trace(spike, self.trace, self.tau) under torch.no_grad();
\* return [spike, self.trace]
Traced(s2, spike, trace, hist) ==
    OnlineRet([s2 EXCEPT !.trace = trace, !.trace_hist = {}], spike, trace, hist)
\* spike = self.neuronal_fire(); self.neuronal_reset(spike) on the charged memories s1; the
\* graph of the spike and of the reset potential is that of the charged potential
OTTT_fire_reset(c, s1, spike) ==
    Traced(BaseNode_neuronal_reset(c, s1, spike), spike,
           AsTensor(track_trace(spike, s1.trace.d, c.tau)), s1.v_hist)
SLTT_fire_reset(c, s1, spike) ==
    OnlineRet(BaseNode_neuronal_reset(c, s1, spike), spike, NoBuffer, s1.v_hist)
\* the evaluation-mode branch of both classes: one of the four fused functions of LIFNode
jit_eval_single_step_forward(c, x, v) ==
    IF c.soft
    THEN IF c.decay_input
         THEN jit_eval_single_step_forward_soft_reset_decay_input(x, v, c.v_threshold, c.tau)
         ELSE jit_eval_single_step_forward_soft_reset_no_decay_input(x, v, c.v_threshold,
                                                                     c.tau)
    ELSE IF c.decay_input
         THEN jit_eval_single_step_forward_hard_reset_decay_input(x, v, c.v_threshold,
                                                                  c.v_reset, c.tau)
         ELSE jit_eval_single_step_forward_hard_reset_no_decay_input(x, v, c.v_threshold,
                                                                     c.v_reset, c.tau)
\* spike, self.v = <fused function>(x, self.v, ...); return spike.  The fused functions
\* do not detach: the graph of v grows by the step, the spike (v >= v_threshold).to(x)
\* has none
Evaluated(s0, r, t) ==
    OnlineRet([s0 EXCEPT !.v = AsTensor(r.v), !.v_hist = @ \cup {t}], r.spike, NoBuffer, {})
\* the training-mode branch on the memories s0 after the charge has left s1
OTTT_charged(c, s1) == OTTT_fire_reset(c, s1, neuronal_fire(c, s1))
SLTT_charged(c, s1) == SLTT_fire_reset(c, s1, neuronal_fire(c, s1))
\* OTTTLIFNode.single_step_forward on the memories s0 that hold v, at step t
OTTT_step(c, s0, x, t) ==
    IF c.training
    THEN OTTT_charged(c, OTTTLIFNode_neuronal_charge(c, register_trace(s0, x), x, t))
    ELSE Evaluated(s0, jit_eval_single_step_forward(c, x, s0.v.d), t)
\* SLTTLIFNode.single_step_forward on the memories s0 that hold v, at step t
SLTT_step(c, s0, x, t) ==
    IF c.training
    THEN SLTT_charged(c, OTTTLIFNode_neuronal_charge(c, s0, x, t))
    ELSE Evaluated(s0, jit_eval_single_step_forward(c, x, s0.v.d), t)
\* OTTTLIFNode.single_step_forward
OTTTLIFNode_single_step_forward(c, self, x, t) == OTTT_step(c, register_v(c, self, x), x, t)
\* SLTTLIFNode.single_step_forward
SLTTLIFNode_single_step_forward(c, self, x, t) == SLTT_step(c, register_v(c, self, x), x, t)
\* the method of the class of the neuron
online_single_step_forward(c, self, x, t) ==
    IF c.kind = "OTTTLIF" THEN OTTTLIFNode_single_step_forward(c, self, x, t)
    ELSE SLTTLIFNode_single_step_forward(c, self, x, t)
online_reset(c, self) ==
    IF c.kind = "OTTTLIF" THEN OTTTLIFNode_reset(self) ELSE SLTTLIFNode_reset(self)

\* OTTTLIFNode and SLTTLIFNode with tau=2., v_threshold=1., a soft reset or a hard reset
\* to 0. or -0.5, with and without decay_input; a module is constructed in training mode
OnlineConfigs ==
    {c \in [kind : {"OTTTLIF", "SLTTLIF"}, training : {TRUE}, soft : BOOLEAN,
            v_reset : {0, Lit(-500)}, v_threshold : {One}, decay_input : BOOLEAN,
            tau : {2 * One}] : c.soft => c.v_reset = 0}
NoOnlineCall ==
    [op |-> "none", x |-> <<>>, training |-> TRUE, pre |-> OnlineConstructed, y |-> <<>>,
     trace |-> NoBuffer, hist |-> {}, since |-> <<>>, resets |-> 0]
InitOnline ==
    /\ cfg \in OnlineConfigs
    /\ node = OnlineConstructed
    /\ call = NoOnlineCall
    /\ ncalls = 0

\* the single-step call on x has returned r
OnlineReturned(x, r) ==
    /\ node' = r.self
    /\ call' = [op |-> "single", x |-> x, training |-> cfg.training, pre |-> node,
                y |-> r.spike, trace |-> r.trace, hist |-> r.hist,
                since |-> Append(call.since, [training |-> cfg.training, x |-> x]),
                resets |-> call.resets]
    /\ ncalls' = ncalls + 1
    /\ UNCHANGED cfg
\* neuron(x) in step mode 's'
OnlineStep(x) ==
    /\ ncalls < MaxOnlineSteps
    /\ OnlineReturned(x, online_single_step_forward(cfg, node, x, ncalls + 1))
\* neuron.reset() after at least one call
OnlineReset ==
    /\ call.op = "single"
    /\ node' = online_reset(cfg, node)
    /\ call' = [NoOnlineCall EXCEPT !.op = "reset", !.pre = node,
                                    !.training = cfg.training, !.resets = 1]
    /\ UNCHANGED <<cfg, ncalls>>
\* neuron.train(mode)
Train(mode) ==
    /\ cfg.training # mode
    /\ cfg' = [cfg EXCEPT !.training = mode]
    /\ UNCHANGED <<node, call, ncalls>>

NextOnline ==
    \/ \E x \in Inputs : OnlineStep(x)
    \/ OnlineReset
    \/ \E mode \in BOOLEAN : Train(mode)

SpecOnline == InitOnline /\ [][NextOnline]_vars

\* C22: in OTTT and SLTT neurons a training-mode step t detaches the potential before the
\* charge, so after it the autograd graph of v and of the returned spike reaches the input
\* of step t alone, and that of the trace reaches no input: no gradient path from the
\* output of step t leads to the input or the state of an earlier step, however many steps
\* came before.
C22_HistoryWithinStep ==
    (call.op = "single" /\ call.training) =>
        /\ node.v_hist = {ncalls}
        /\ call.hist = {ncalls}
        /\ node.trace_hist = {}
\* a training-mode step, the third of a run, on a potential the step before left with a
\* graph of its own
C22_Witness ==
    /\ call.op = "single" /\ call.training /\ ncalls = MaxOnlineSteps
    /\ call.pre.v_hist # {} /\ call.pre.v # NoBuffer
    /\ \E i \in Idx : call.pre.v.d[i] # 0

\* the trace a call found, element i: an OTTT neuron without the attribute holds no
\* trace, which the next training-mode step creates as zeros
TraceBefore(i) == IF call.pre.trace = NoBuffer THEN 0 ELSE call.pre.trace.d[i]
\* C23: an OTTT neuron keeps a trace that a reset removes (the next training-mode step
\* starts it from zero) and that every training-mode single step updates to
\* trace * (1 - 1/tau) + spike with the spike of that step and returns together with the
\* spike; the trace has no autograd graph; an evaluation-mode step returns the spike alone
\* and leaves the trace as it was.
C23_TraceUpdate ==
    cfg.kind = "OTTTLIF" =>
        /\ call.op = "reset" => node.trace = NoBuffer
        /\ (call.op = "single" /\ call.training) =>
              /\ call.trace = node.trace /\ node.trace_hist = {}
              /\ \A i \in Idx :
                    /\ node.trace.d[i] = Mul(TraceBefore(i), OneMinusInvTau(cfg.tau)) + call.y[i]
                    /\ call.y[i] \in {0, One}
        /\ (call.op = "single" /\ ~call.training) =>
              call.trace = NoBuffer /\ node.trace = call.pre.trace
\* a training-mode step of an OTTT neuron has decayed a trace of 1.0 to 0.5 and added the
\* spike of the step to it
C23_Witness ==
    /\ cfg.kind = "OTTTLIF" /\ call.op = "single" /\ call.training
    /\ \E i \in Idx : call.pre.trace # NoBuffer /\ call.pre.trace.d[i] = One
                      /\ call.y[i] = One /\ node.trace.d[i] = One + Lit(500)

RECURSIVE OnlineRun(_, _, _, _)
\* the calls of the sequence calls, each in the mode it was made in, on the memories self,
\* the first of them as step t: what the last of them returns and leaves
OnlineRun(c, self, calls, t) ==
    IF Len(calls) = 1
    THEN online_single_step_forward([c EXCEPT !.training = calls[1].training], self,
                                    calls[1].x, t)
    ELSE OnlineRun(c, online_single_step_forward([c EXCEPT !.training = calls[1].training],
                                                 self, calls[1].x, t).self,
                   Tail(calls), t + 1)
\* the memories and the results of r are those the last call left and returned
SameAsRun(r) ==
    /\ node.v = r.self.v /\ node.trace = r.self.trace
    /\ call.y = r.spike /\ call.trace = r.trace
\* C24: after reset() an OTTT or SLTT neuron holds no v and no trace, as after
\* construction; the first single-step call after it creates v filled with v_reset (hard
\* reset) or 0 (soft reset) before it charges, and every call after a reset returns the
\* spikes (and trace) and leaves the memories that the same calls since the reset return
\* and leave on a freshly constructed neuron.
C24_ResetIsFresh ==
    /\ call.op = "reset" => (node.v = NoBuffer /\ node.trace = NoBuffer)
    /\ (call.op = "single" /\ call.pre.v = NoBuffer) =>
          register_v(cfg, call.pre, call.x).v.d =
              [i \in Idx |-> IF cfg.soft THEN 0 ELSE cfg.v_reset]
    /\ call.op = "single" => SameAsRun(OnlineRun(cfg, OnlineConstructed, call.since, 1))
\* the last call of a run is the first after a reset that followed two calls, and an
\* element fires in it
C24_Witness ==
    /\ call.op = "single" /\ call.resets = 1 /\ Len(call.since) = 1
    /\ ncalls = MaxOnlineSteps
    /\ \E i \in Idx : call.y[i] = One

\* ------------------------------------------------ MaskedPSN, SlidingPSN: the calls
\* A fifth state machine over the same variables follows one MaskedPSN or SlidingPSN
\* through single-step calls, multi-step calls and reset().  There cfg is the neuron
\* (kind, k, T, lambda_, backend, weight); node holds the memories time_step and queue;
\* call is the last call with the memories it found (pre), what it returned (y, h, err)
\* and, since the last reset, the
\* inputs of the single-step calls (since), the values and spikes of those that returned
\* (hs, ys) and their number n; ncalls counts the calls.
MaxPSNCalls == 5
\* MaskedPSN(k=2, T=3, lambda_init) with lambda_ 0. (the default), 0.5 and 1.; SlidingPSN
\* of order 2 with exp_init (weight [0.5, 1.]) and without ([0.3, 0.7]), and of order 3
\* with exp_init, backend 'gemm' or 'conv'
PSNConfigs ==
    [kind : {"MaskedPSN"}, k : {2}, T : {3}, lambda_ : {0, Lit(500), One},
     backend : {"gemm"}, weight : {<<>>}]
    \cup {[kind |-> "SlidingPSN", k |-> Len(w), T |-> 0, lambda_ |-> One, backend |-> be,
           weight |-> w] :
            be \in {"gemm", "conv"},
            w \in {<<Lit(500), One>>, <<Lit(300), Lit(700)>>, <<Lit(250), Lit(500), One>>}}
\* register_memory('time_step', 0), register_memory('queue', [])
PSNMemories == [time_step |-> 0, queue |-> <<>>]
NoPSNCall ==
    [op |-> "none", pre |-> PSNMemories, x |-> <<>>, y |-> <<>>, h |-> <<>>, err |-> "",
     since |-> <<>>, hs |-> <<>>, ys |-> <<>>, n |-> 0]
InitPSN ==
    /\ cfg \in PSNConfigs
    /\ node = PSNMemories
    /\ call = NoPSNCall
    /\ ncalls = 0

\* the single-step call on x has returned or raised: r
PSNReturned(x, r) ==
    /\ node' = r.self
    /\ call' = [op |-> "single", pre |-> node, x |-> x, y |-> r.y, h |-> r.h, err |-> r.err,
                since |-> Append(call.since, x),
                hs |-> IF r.err = "" THEN Append(call.hs, r.h) ELSE call.hs,
                ys |-> IF r.err = "" THEN Append(call.ys, r.y) ELSE call.ys,
                n |-> call.n + 1]
    /\ ncalls' = ncalls + 1
    /\ UNCHANGED cfg
\* neuron(x) in step mode 's'
PSNSingleStep(x) ==
    /\ ncalls < MaxPSNCalls
    /\ PSNReturned(x, IF cfg.kind = "MaskedPSN"
                      THEN MaskedPSN_single_step_forward(cfg, node, x)
                      ELSE SlidingPSN_single_step_forward(cfg, node, x))
\* the multi-step call on x_seq has returned y and h, or raised
PSNMultiReturned(x_seq, y, h, err) ==
    /\ call' = [call EXCEPT !.op = "multi", !.pre = node, !.x = x_seq, !.y = y, !.h = h,
                            !.err = err]
    /\ ncalls' = ncalls + 1
    /\ UNCHANGED <<cfg, node>>
\* neuron(x_seq) in step mode 'm': the call leaves the memories as they are
PSNMulti(x_seq) ==
    /\ ncalls < MaxPSNCalls
    /\ IF cfg.kind = "MaskedPSN"
       THEN PSNMultiReturned(x_seq, MaskedPSN_multi_step_forward(cfg, node, x_seq).y,
                             MaskedPSN_multi_step_forward(cfg, node, x_seq).h,
                             IF Len(x_seq) # cfg.T THEN "AssertionError" ELSE "")
       ELSE PSNMultiReturned(x_seq, SlidingPSN_multi_step_forward(cfg, node, x_seq).y,
                             SlidingPSN_multi_step_forward(cfg, node, x_seq).h, "")
\* MemoryModule.reset(): every memory takes a copy of its registered value
PSNReset ==
    /\ call.op \in {"single", "multi"}
    /\ node' = PSNMemories
    /\ call' = [NoPSNCall EXCEPT !.op = "reset"]
    /\ UNCHANGED <<cfg, ncalls>>

NextPSN ==
    \/ \E x \in Inputs : PSNSingleStep(x)
    \/ \E x_seq \in XSeqs : PSNMulti(x_seq)
    \/ PSNReset

SpecPSN == InitPSN /\ [][NextPSN]_vars

\* C25: a MaskedPSN with lambda_ >= 1 and horizon T accepts exactly T single-step calls
\* after a reset, call n using row n of the weight; call T + 1 and every later call until
\* the next reset raises OverflowError and leaves time_step at T.  With lambda_ < 1 (the
\* default lambda_init is 0.) every single-step call raises ValueError and leaves the
\* memories as they were.
C25_OverflowPastHorizon ==
    (cfg.kind = "MaskedPSN" /\ call.op = "single") =>
        IF cfg.lambda_ < One
        THEN call.err = "ValueError" /\ node = PSNMemories
        ELSE IF call.n <= cfg.T
             THEN call.err = "" /\ node.time_step = call.n /\ Len(call.hs) = call.n
             ELSE call.err = "OverflowError" /\ node.time_step = cfg.T
                  /\ Len(call.hs) = cfg.T
\* the second call past the horizon of a MaskedPSN with lambda_ = 1. has raised
\* OverflowError, after T calls that returned
C25_Witness ==
    /\ cfg.kind = "MaskedPSN" /\ cfg.lambda_ = One /\ call.op = "single"
    /\ call.n = cfg.T + 2 /\ call.err = "OverflowError" /\ Len(call.hs) = cfg.T
\* C25 as stated: a MaskedPSN in single-step mode accepts exactly T single-step calls after
\* a reset, and every call past the T-th raises OverflowError.
C25_AcceptsExactlyT ==
    (cfg.kind = "MaskedPSN" /\ call.op = "single") =>
        IF call.n <= cfg.T THEN call.err = "" ELSE call.err = "OverflowError"

\* the band of row t: the columns t - k + 1 .. t that exist
BandLow(t) == IF t - cfg.k + 1 > 1 THEN t - cfg.k + 1 ELSE 1
\* C28: with lambda_ >= 1 and after a reset, the single-step calls of a MaskedPSN give at
\* step t the bias of row t plus the sum of weight[t][s] * x[s] over the inputs s = t - k +
\* 1 .. t of the band, and after T calls their values and spikes are row by row those of
\* one multi-step call on the whole sequence.
C28_SingleStepsAreRows ==
    (cfg.kind = "MaskedPSN" /\ cfg.lambda_ >= One /\ call.op = "single"
         /\ call.n <= cfg.T) =>
        /\ \A t \in 1..call.n : \A i \in Idx :
              call.hs[t][i] = psn_bias +
                  SeqSum([j \in 1..(t - BandLow(t) + 1) |->
                             Mul(psn_weight[t][BandLow(t) + j - 1],
                                 call.since[BandLow(t) + j - 1][i])])
        /\ call.n = cfg.T =>
              /\ call.hs = MaskedPSN_multi_step_forward(cfg, node, call.since).h
              /\ call.ys = MaskedPSN_multi_step_forward(cfg, node, call.since).y
\* T single-step calls after a reset, on inputs that are not all zero before the band of
\* the last row, the last of them firing
C28_Witness ==
    /\ cfg.kind = "MaskedPSN" /\ cfg.lambda_ >= One /\ call.op = "single"
    /\ call.n = cfg.T /\ call.err = ""
    /\ \E i \in Idx : call.since[1][i] # 0 /\ call.y[i] = One

\* H[t] = sum over i of W[i] * X[t - k + 1 + i], inputs before the first counted as
\* absent, plus the bias: element e of step t (steps and weights counted from 1)
SlidingH(x_seq, t, e) ==
    psn_bias + SeqSum([j \in 1..cfg.k |->
                         IF t - cfg.k + j >= 1 THEN Mul(cfg.weight[j], x_seq[t - cfg.k + j][e])
                         ELSE 0])
\* C29: for a SlidingPSN of order k the single-step calls made from an empty queue, the
\* multi-step 'gemm' backend and the multi-step 'conv' backend compute the same H[t] =
\* sum over i of W[i] * X[t - k + 1 + i] (plus the bias), and the same spikes, for the
\* sequences of every length reached.
C29_ThreeWaysAgree ==
    cfg.kind = "SlidingPSN" =>
        /\ call.op = "single" =>
              /\ \A t \in 1..call.n : \A e \in Idx :
                    call.hs[t][e] = SlidingH(call.since, t, e)
              /\ call.hs = SlidingPSN_h_seq([cfg EXCEPT !.backend = "gemm"], call.since)
              /\ call.hs = SlidingPSN_h_seq([cfg EXCEPT !.backend = "conv"], call.since)
              /\ call.ys = Spikes(call.hs)
        /\ call.op = "multi" =>
              /\ \A t \in 1..Len(call.x) : \A e \in Idx :
                    call.h[t][e] = SlidingH(call.x, t, e)
              /\ call.y = Spikes(call.h)
\* more single-step calls than the order of a SlidingPSN with backend 'conv', the queue
\* full and its oldest input dropped, an element firing in the last call
C29_Witness ==
    /\ cfg.kind = "SlidingPSN" /\ cfg.backend = "conv"
    /\ call.op = "single" /\ call.n > cfg.k /\ Len(node.queue) = cfg.k
    /\ call.since[1] # call.since[call.n]
    /\ \E e \in Idx : call.y[e] = One

\* ------------------------------------------------------ LIF reset0 charge forms
\* the potential a single-step call found, as the tensor v_float_to_tensor makes of it
PreV == [i \in Idx |-> At(call.pre.v, i)]
\* C26 as stated: in a LIFNode with v_reset = 0 or a soft reset the charge of a
\* training-mode step, computed with the reset0 form, is the value of the general form at
\* v_reset = 0 on the same v and x: v + (x - (v - 0)) / tau with decay_input,
\* v - (v - 0) / tau + x without it.
C26_Reset0EqualsGeneral ==
    (call.op = "single" /\ cfg.kind = "LIF" /\ cfg.training
         /\ (cfg.soft \/ cfg.v_reset = 0)) =>
        call.h = IF cfg.decay_input
                 THEN neuronal_charge_decay_input(call.x[1], PreV, 0, cfg.tau)
                 ELSE neuronal_charge_no_decay_input(call.x[1], PreV, 0, cfg.tau)

\* ------------------------------------------- NoisyBaseNode, NoisyNonSpikingBaseNode
\* A sixth state machine over the same variables follows one NoisyCLIFNode (a
\* NoisyBaseNode) or NoisyNonSpikingIFNode (a NoisyNonSpikingBaseNode) through forward
\* calls, reset_noise, load_colored_noise and cancel_load.  There cfg is the neuron (kind,
\* is_training, T); node holds what the methods assign: v and c, the loaded noise cn
\* (NoNoise after construction and after cancel_load; cn_v and cn_s are its two halves),
\* and, once reset_noise has run (has_noise), the number n of episodes generated, the
\* number gen of the generation, and noise_step; call is the last call, the memories it
\* found (pre) and what it returned or raised; ncalls counts the forward calls.
MaxNoiseCalls == 4
\* the generations of noise reset_noise may draw in a run
MaxGen == 2
\* sigma_v, sigma_s and sigma: sigma_init / sqrt(num_node), here 0.5
noisy_sigma == Lit(500)
\* eps_v_seq[e][t] and eps_s_seq[e][t] (eps_seq[e][t]) of generation g, element i, episodes
\* and steps counted from 0: a value that tells generation, episode and step apart
eps_v(g, e, t, i) == Lit(100) * (4 * g + 2 * e + t + 1)
eps_s(g, e, t, i) == 0 - Lit(50) * (4 * g + 2 * e + t + 1)
\* two realizations given to load_colored_noise: their halves cn_v[:, t] and cn_s[:, t]
\* (cn[:, t] in the non-spiking node), steps counted from 0
LoadedNoise ==
    {[v |-> [t \in 1..2 |-> [i \in Idx |-> Lit(-300) * t]],
      s |-> [t \in 1..2 |-> [i \in Idx |-> Lit(20) * t]]],
     [v |-> [t \in 1..2 |-> [i \in Idx |-> Lit(2000)]],
      s |-> [t \in 1..2 |-> [i \in Idx |-> Lit(-10)]]]}
\* cn_v = cn_s = None (cn = None)
NoNoise == [v |-> <<>>, s |-> <<>>]
\* after __init__: cn_v = cn_s = None (cn = None); eps_v_seq, eps_s_seq and noise_step do
\* not exist yet
NoisyConstructed ==
    [v |-> <<>>, c |-> <<>>, cn |-> NoNoise, has_noise |-> FALSE, n |-> 0, gen |-> 0,
     noise_step |-> 0]

\* NoisyCLIFNode.neuronal_charge: c = c * c_decay + x, v = v * v_decay + c;
\* NoisyNonSpikingIFNode.neuronal_charge: v = v + x
noisy_charge(c, self, x) ==
    IF c.kind = "NoisyCLIF"
    THEN [self EXCEPT !.c = [i \in Idx |-> Mul(self.c[i], c_decay) + x[i]],
                      !.v = [i \in Idx |-> Mul(self.v[i], v_decay)
                                           + (Mul(self.c[i], c_decay) + x[i])]]
    ELSE [self EXCEPT !.v = [i \in Idx |-> self.v[i] + x[i]]]
\* NoisyBaseNode.neuronal_reset on the spike of neuronal_fire, v_reset = 0.
noisy_fire_reset(c, self) ==
    [self EXCEPT !.v = [i \in Idx |->
        Mul(One - heaviside(self.v[i] - c.v_threshold), self.v[i])
        + Mul(heaviside(self.v[i] - c.v_threshold), c.v_reset)]]
\* the noise of step t (counted from 1) of a training-mode forward: the loaded
\* realization, or the episode noise_step of the generated sequences
NoiseV(self, t) ==
    IF self.cn # NoNoise THEN self.cn.v[t]
    ELSE [i \in Idx |-> eps_v(self.gen, self.noise_step, t - 1, i)]
NoiseS(self, t) ==
    IF self.cn # NoNoise THEN self.cn.s[t]
    ELSE [i \in Idx |-> eps_s(self.gen, self.noise_step, t - 1, i)]
\* the input of the charge of step t
NoisyInput(c, self, x_seq, t) ==
    IF c.is_training
    THEN [i \in Idx |-> x_seq[t][i] + Mul(noisy_sigma, NoiseV(self, t)[i])]
    ELSE x_seq[t]
\* what step t appends: in NoisyBaseNode the spike, in training mode plus sigma_s times
\* the noise; in NoisyNonSpikingBaseNode the potential
NoisyOutput(c, charged, t) ==
    IF c.kind = "NoisyCLIF"
    THEN [i \in Idx |-> heaviside(charged.v[i] - c.v_threshold)
                        + (IF c.is_training THEN Mul(noisy_sigma, NoiseS(charged, t)[i])
                           ELSE 0)]
    ELSE charged.v
RECURSIVE NoisyLoop(_, _, _, _, _)
RECURSIVE NoisyStep(_, _, _, _, _)
\* the loop `for t in range(self.T)` of forward from step t on, y the outputs so far
NoisyLoop(c, self, x_seq, t, y) ==
    IF t > c.T THEN [self |-> self, y |-> y, err |-> ""]
    ELSE NoisyStep(c, noisy_charge(c, self, NoisyInput(c, self, x_seq, t)), x_seq, t, y)
\* the rest of step t once the charge has left the memories charged
NoisyStep(c, charged, x_seq, t, y) ==
    NoisyLoop(c, IF c.kind = "NoisyCLIF" THEN noisy_fire_reset(c, charged) ELSE charged,
              x_seq, t + 1, Append(y, NoisyOutput(c, charged, t)))
\* init_tensor: v = full_like(data, v_reset) and c = full_like(data, 0.) in NoisyCLIFNode,
\* v = full_like(data, 0.) in NoisyNonSpikingBaseNode
init_tensor(c, self, x) ==
    [self EXCEPT !.v = [i \in DOMAIN x |-> IF c.kind = "NoisyCLIF" THEN c.v_reset ELSE 0],
                 !.c = IF c.kind = "NoisyCLIF" THEN zeros_like(x) ELSE self.c]
\* faulty variant: noise_step advances whether or not a realization is loaded
advance_noise_step_mut(c, self) ==
    IF c.is_training THEN [self EXCEPT !.noise_step = @ + 1] ELSE self
\* if self.is_training: if self.cn_v is None or self.cn_s is None: self.noise_step += 1
advance_noise_step(c, self) ==
    IF c.is_training /\ self.cn = NoNoise THEN [self EXCEPT !.noise_step = @ + 1] ELSE self
\* forward after init_tensor and the advance of noise_step have left the memories s: the
\* loop, where the lookup eps_v_seq[noise_step] of its first step raises IndexError for
\* a noise_step past the last episode
Looped(c, s, x_seq) ==
    IF c.is_training /\ s.cn = NoNoise /\ s.noise_step >= s.n
    THEN [self |-> s, y |-> <<>>, err |-> "IndexError"]
    ELSE NoisyLoop(c, s, x_seq, 1, <<>>)
\* NoisyBaseNode.forward, NoisyNonSpikingBaseNode.forward; the decoding of the latter is
\* 'last-mem', which returns the last potential.  Without a loaded realization and before
\* any reset_noise the statement self.noise_step += 1 raises AttributeError
Noisy_forward(c, self, x_seq) ==
    IF c.is_training /\ self.cn = NoNoise /\ ~self.has_noise
    THEN [self |-> init_tensor(c, self, x_seq[1]), y |-> <<>>, err |-> "AttributeError"]
    ELSE Looped(c, advance_noise_step(c, init_tensor(c, self, x_seq[1])), x_seq)

\* NoisyCLIFNode(num_node, T=2, v_threshold=0.5, v_reset=0.) and
\* NoisyNonSpikingIFNode(num_node, T=2), is_training True or False
NoisyConfigs ==
    [kind : {"NoisyCLIF", "NoisyNonSpikingIF"}, is_training : BOOLEAN, T : {2},
     v_threshold : {Lit(500)}, v_reset : {0}]
\* consumed: the last episode a forward call took from the generated sequences since
\* reset_noise, -1 for none; trail: for each forward call since reset_noise that returned,
\* the noise it was to use
NoNoisyCall ==
    [op |-> "none", x |-> <<>>, y |-> <<>>, err |-> "", pre |-> NoisyConstructed,
     consumed |-> 0 - 1, trail |-> <<>>]
InitNoisy ==
    /\ cfg \in NoisyConfigs
    /\ node = NoisyConstructed
    /\ call = NoNoisyCall
    /\ ncalls = 0

\* forward on x_seq has returned or raised: r
NoisyReturned(x_seq, r) ==
    /\ node' = r.self
    /\ call' = [op |-> "forward", x |-> x_seq, err |-> r.err, pre |-> node,
                y |-> IF r.err # "" THEN <<>>
                      ELSE IF cfg.kind = "NoisyCLIF" THEN r.y ELSE r.y[cfg.T],
                consumed |-> IF cfg.is_training /\ node.cn = NoNoise /\ r.err = ""
                             THEN r.self.noise_step ELSE call.consumed,
                trail |-> IF r.err # "" THEN call.trail
                          ELSE Append(call.trail, IF ~cfg.is_training THEN "none"
                                                  ELSE IF node.cn = NoNoise THEN "generated"
                                                  ELSE "loaded")]
    /\ ncalls' = ncalls + 1
    /\ UNCHANGED cfg
\* neuron(x_seq)
NoisyForward(x_seq) ==
    /\ ncalls < MaxNoiseCalls
    /\ Len(x_seq) = cfg.T
    /\ NoisyReturned(x_seq, Noisy_forward(cfg, node, x_seq))
\* another method than forward has run
NoisyDid(op) ==
    /\ call' = [call EXCEPT !.op = op, !.x = <<>>, !.y = <<>>, !.err = "", !.pre = node,
                            !.consumed = IF op = "reset_noise" THEN 0 - 1 ELSE @,
                            !.trail = IF op = "reset_noise" THEN <<>> ELSE @]
    /\ UNCHANGED <<cfg, ncalls>>
\* reset_noise(num_rl_step): new sequences of num_rl_step episodes, noise_step = -1
ResetNoise(num_rl_step) ==
    /\ node.gen < MaxGen
    /\ node' = [node EXCEPT !.has_noise = TRUE, !.n = num_rl_step, !.gen = @ + 1,
                            !.noise_step = 0 - 1]
    /\ NoisyDid("reset_noise")
\* load_colored_noise(cn)
LoadColoredNoise(cn) ==
    /\ node.cn # cn
    /\ node' = [node EXCEPT !.cn = cn]
    /\ NoisyDid("load_colored_noise")
\* cancel_load()
CancelLoad ==
    /\ node.cn # NoNoise
    /\ node' = [node EXCEPT !.cn = NoNoise]
    /\ NoisyDid("cancel_load")

NextNoisy ==
    \/ \E x_seq \in XSeqs : NoisyForward(x_seq)
    \/ \E num_rl_step \in 1..2 : ResetNoise(num_rl_step)
    \/ \E cn \in LoadedNoise : LoadColoredNoise(cn)
    \/ CancelLoad

SpecNoisy == InitNoisy /\ [][NextNoisy]_vars

\* a neuron that holds nothing but the loaded realization cn
OnlyLoaded(cn) == [NoisyConstructed EXCEPT !.cn = cn]
\* a neuron that holds nothing but the generated sequences of generation g, at episode e
OnlyGenerated(g, e) == [NoisyConstructed EXCEPT !.has_noise = TRUE, !.gen = g, !.noise_step = e]
\* the last forward call returned and left what the loop of forward returns and leaves on
\* the memories s
ResultOn(s) ==
    /\ node.v = NoisyLoop(cfg, init_tensor(cfg, s, call.x[1]), call.x, 1, <<>>).self.v
    /\ call.y = IF cfg.kind = "NoisyCLIF"
                THEN NoisyLoop(cfg, init_tensor(cfg, s, call.x[1]), call.x, 1, <<>>).y
                ELSE node.v
\* C27: while a loaded noise realization is present (load_colored_noise called, cancel_load
\* not yet), a training-mode forward call computes its result from the loaded noise alone
\* and leaves noise_step as it was; without one, and so after cancel_load, a training-mode
\* forward call that returns computes its result from the generated sequences at the
\* episode after the last one a forward call took from them, and leaves noise_step there.
C27_LoadedNoiseDoesNotAdvance ==
    (call.op = "forward" /\ cfg.is_training /\ call.err = "") =>
        IF call.pre.cn # NoNoise
        THEN /\ node.noise_step = call.pre.noise_step
             /\ node.cn = call.pre.cn
             /\ ResultOn(OnlyLoaded(call.pre.cn))
        ELSE /\ node.noise_step = call.pre.noise_step + 1
             /\ node.noise_step + 1 =
                    Cardinality({j \in DOMAIN call.trail : call.trail[j] = "generated"})
             /\ ResultOn(OnlyGenerated(node.gen, node.noise_step))
\* three training-mode forward calls since reset_noise: one on the generated noise, one
\* on a loaded realization, and after cancel_load one that takes episode 1 of the
\* generated sequences
C27_Witness ==
    /\ call.op = "forward" /\ cfg.is_training /\ call.err = ""
    /\ call.trail = <<"generated", "loaded", "generated">>
    /\ call.pre.cn = NoNoise /\ node.noise_step = 1

\* ------------------------------------------- evaluation-mode spike: the inclusive step
\* the last call was one single step of an IFNode or a LIFNode in evaluation mode: the step
\* one of the jit_eval_single_step_forward_* functions computes
EvalStep == call.op = "single" /\ ~call.raised /\ ~cfg.training /\ cfg.kind \in {"IF", "LIF"}

\* C30: in evaluation mode an element fires in a step exactly when its charged potential
\* is >= v_threshold: it is then reset in this step (to v_reset, or by the subtraction of
\* v_threshold), and otherwise keeps its charged potential; an element whose charged
\* potential equals v_threshold exactly fires and is reset.
C30_EvalSpikeIsInclusiveStep ==
    EvalStep =>
        \A i \in Idx :
            /\ call.y[1][i] = (IF call.h[i] >= cfg.v_threshold THEN One ELSE 0)
            /\ node.v.d[i] = (IF call.h[i] < cfg.v_threshold THEN call.h[i]
                              ELSE IF cfg.soft THEN call.h[i] - cfg.v_threshold
                              ELSE cfg.v_reset)
            /\ call.h[i] = cfg.v_threshold =>
                   /\ call.y[1][i] = One
                   /\ node.v.d[i] = (IF cfg.soft THEN 0 ELSE cfg.v_reset)
\* an evaluation-mode step charged one element to v_threshold exactly, which fired and was
\* reset, and another below it, which did not fire and kept its charged potential
C30_Witness ==
    /\ EvalStep
    /\ \E i \in Idx : /\ call.h[i] = cfg.v_threshold /\ call.y[1][i] = One
                      /\ node.v.d[i] = (IF cfg.soft THEN 0 ELSE cfg.v_reset)
    /\ \E i \in Idx : call.h[i] < cfg.v_threshold /\ call.y[1][i] = 0 /\ node.v.d[i] = call.h[i]

\* ------------------------------------------------- the adaptive neuron: one step
\* the last call was one single step of an IzhikevichNode
AdaptStep == call.op = "single" /\ ~call.raised /\ cfg.kind = "Izhikevich"
\* the potential neuronal_charge leaves for element i from the v and the w the call found
ChargedFrom(v0, w0, x) ==
    v0 + Div((x + Mul(Mul(a0, v0 - v_rest), v0 - v_c)) - w0, cfg.tau)
\* w + (a * (v - v_rest) - w) / tau_w
AdaptedFrom(w0, v1) == w0 + Div(Mul(a, v1 - v_rest) - w0, tau_w)

\* C31: a step of an IzhikevichNode charges v from the v and the w it found, then moves
\* w to w + (a * (v - v_rest) - w) / tau_w with the v just charged, then fires on that v,
\* then resets: v as the reset mode says and w by b * spike, with hard and with soft reset;
\* the w of an element that did not fire is the adapted w.
C31_ChargeAdaptFireReset ==
    AdaptStep =>
        \A i \in Idx :
            /\ call.h[i] = ChargedFrom(At(call.pre.v, i), At(call.pre.w, i), call.x[1][i])
            /\ call.y[1][i] = (IF call.h[i] >= cfg.v_threshold THEN One ELSE 0)
            /\ node.w.d[i] = AdaptedFrom(At(call.pre.w, i), call.h[i])
                                 + (IF call.y[1][i] = One THEN b ELSE 0)
            /\ node.v.d[i] = (IF call.y[1][i] = 0 THEN call.h[i]
                              ELSE IF cfg.soft THEN call.h[i] - cfg.v_threshold
                              ELSE cfg.v_reset)
\* a step that found a nonzero w fired one element and not another, and the adaptation
\* computed from the v before the charge would have left another w
C31_Witness ==
    /\ AdaptStep /\ call.pre.w.isTensor
    /\ \E i \in Idx : /\ call.y[1][i] = One /\ call.pre.w.d[i] # 0
                      /\ AdaptedFrom(call.pre.w.d[i], call.pre.v.d[i])
                             # AdaptedFrom(call.pre.w.d[i], call.h[i])
    /\ \E i \in Idx : call.y[1][i] = 0 /\ node.w.d[i] = AdaptedFrom(call.pre.w.d[i], call.h[i])

\* --------------------------------------------------------- KLIFNode: scale_reset
\* the last call was one single step of a KLIFNode
KLIFStep == call.op = "single" /\ ~call.raised /\ cfg.kind = "KLIF"
\* the ordinary reset of a potential v whose element emitted the spike s
OrdinaryReset(v, s) ==
    IF cfg.soft THEN v - Mul(s, cfg.v_threshold)
    ELSE IF s = One THEN cfg.v_reset ELSE v

\* C32 as stated: with scale_reset the reset of a KLIFNode divides the potential by k first
\* and applies the ordinary reset to the divided value, with hard and with soft reset;
\* without scale_reset it is the ordinary reset.
C32_DivideThenReset ==
    KLIFStep =>
        \A i \in Idx :
            node.v.d[i] = IF cfg.scale_reset
                          THEN OrdinaryReset(Div(call.h[i], cfg.k), call.y[1][i])
                          ELSE OrdinaryReset(call.h[i], call.y[1][i])
\* C32: with scale_reset the hard reset of a KLIFNode divides the potential by k first and
\* resets the divided value, while the soft reset subtracts the threshold first and divides
\* the difference by k; without scale_reset the reset is the ordinary one.
C32_HardDividesFirstSoftDividesLast ==
    KLIFStep =>
        \A i \in Idx :
            node.v.d[i] = IF ~cfg.scale_reset THEN OrdinaryReset(call.h[i], call.y[1][i])
                          ELSE IF cfg.soft
                               THEN Div(OrdinaryReset(call.h[i], call.y[1][i]), cfg.k)
                               ELSE OrdinaryReset(Div(call.h[i], cfg.k), call.y[1][i])
\* a KLIFNode with scale_reset, soft reset and k = 2 fired an element: the potential left
\* is (h - v_threshold) / k and not h / k - v_threshold
C32_Witness ==
    /\ KLIFStep /\ cfg.scale_reset /\ cfg.soft /\ cfg.k = 2 * One
    /\ \E i \in Idx : /\ call.y[1][i] = One
                      /\ node.v.d[i] = Div(call.h[i] - cfg.v_threshold, cfg.k)
                      /\ node.v.d[i] # Div(call.h[i], cfg.k) - cfg.v_threshold

\* ------------------------------------------------------ DSR threshold gradient
\* worker w has computed its threshold gradient
HasThresholdGrad(w) == node[w].pc \notin {"idle", "forwarded"}
\* the rate-coded output gradient of element i in worker w
GradCoding(w, i) == grad_output_coding(cfg, node[w].grad_output, i)
\* the sum of the rate-coded output gradient over the elements of worker w whose rate-coded
\* input is strictly greater than the threshold
SumAboveThreshold(w) ==
    SeqSum([i \in Idx |-> IF RateOf(w, i) > rate_threshold(cfg) THEN GradCoding(w, i) ELSE 0])

\* C33 as stated: the threshold gradient backward computes is the sum of the rate-coded
\* output gradient over exactly the elements whose rate-coded input is strictly greater than
\* the (time-weighted) threshold, multiplied by v_threshold_grad_scaling.
C33_SumTimesScaling ==
    \A w \in Workers : HasThresholdGrad(w) =>
        node[w].local = Mul(SumAboveThreshold(w), cfg.v_threshold_grad_scaling)
\* C33: the threshold gradient backward computes is the sum of the rate-coded output
\* gradient over exactly the elements whose rate-coded input is strictly greater than the
\* (time-weighted) threshold, multiplied by v_threshold_grad_scaling in DSRIFNode and by
\* delta_t and v_threshold_grad_scaling in DSRLIFNode; elements at or below the threshold
\* contribute nothing.
C33_SumTimesScalingAndDeltaT ==
    \A w \in Workers : HasThresholdGrad(w) =>
        node[w].local =
            IF cfg.kind = "DSRIF"
            THEN Mul(SumAboveThreshold(w), cfg.v_threshold_grad_scaling)
            ELSE Mul(Mul(SumAboveThreshold(w), cfg.delta_t), cfg.v_threshold_grad_scaling)
\* a DSRLIFNode with delta_t = 0.5 ran backward on an input with one element above the
\* threshold and another below it, both with a nonzero output gradient: the threshold
\* gradient is not zero and is not the sum times v_threshold_grad_scaling
C33_Witness ==
    \E w \in Workers :
        /\ HasThresholdGrad(w) /\ cfg.kind = "DSRLIF" /\ cfg.delta_t = Lit(500)
        /\ \E i \in Idx : RateOf(w, i) > rate_threshold(cfg) /\ GradCoding(w, i) # 0
        /\ \E i \in Idx : RateOf(w, i) < rate_threshold(cfg) /\ GradCoding(w, i) # 0
        /\ node[w].local # 0
        /\ node[w].local # Mul(SumAboveThreshold(w), cfg.v_threshold_grad_scaling)

\* ------------------------------------------------ kernels across step modes
\* C34 as stated: after any sequence of accelerated training calls on one IFNode or LIFNode
\* with the step mode switched between calls and the rest of the signature unchanged, the
\* kernels a call hands to the operator of its step mode are kernels of that step mode:
\* single-step kernels in step mode 's', multi-step kernels in step mode 'm'.
C34_KernelsOfTheStepMode ==
    (CupyCall /\ cfg.kind \in {"IF", "LIF"}) =>
        \A slot \in KernelSlots : node[slot].cls[3] = cfg.step_mode

\* ------------------------------------------ MaskedPSN: a single-step call that raises
\* C35 as stated: a single-step call of a MaskedPSN that raises, ValueError for lambda_ < 1
\* or OverflowError past the horizon T, leaves the queue and time_step as they were before
\* the call.
C35_RaisingCallChangesNothing ==
    (cfg.kind = "MaskedPSN" /\ call.op = "single" /\ call.err # "") =>
        node.queue = call.pre.queue /\ node.time_step = call.pre.time_step

\* --------------------------------------------------------------- the queue of a PSN
\* the smaller of two numbers
Min2(m, n) == IF m < n THEN m ELSE n
\* every single-step call since the last reset has returned
AllReturned == call.op = "single" /\ call.err = "" /\ Len(call.hs) = call.n

\* C36: after single-step calls that all returned, the queue of a MaskedPSN or SlidingPSN
\* holds at most k entries, the most recent inputs in the order they arrived; in a MaskedPSN
\* len(queue) = min(time_step, k) between calls, and the start index time_step + 1 -
\* len(queue) of the weight slice a call computes is not negative.
C36_QueueHoldsLastK ==
    /\ Len(node.queue) <= cfg.k
    /\ AllReturned =>
          /\ Len(node.queue) = Min2(call.n, cfg.k)
          /\ node.queue = SubSeq(call.since, call.n - Len(node.queue) + 1, call.n)
    /\ cfg.kind = "MaskedPSN" => Len(node.queue) = Min2(node.time_step, cfg.k)
    /\ (cfg.kind = "MaskedPSN" /\ AllReturned) =>
          call.pre.time_step + 1 - Len(node.queue) >= 0
\* a MaskedPSN has returned from more single-step calls than its order k: the queue is full,
\* its oldest input was dropped, and the slice of the last call started past column 0
C36_Witness ==
    /\ cfg.kind = "MaskedPSN" /\ AllReturned /\ call.n > cfg.k
    /\ Len(node.queue) = cfg.k /\ node.queue[cfg.k] = call.x
    /\ call.since[1] # node.queue[1]
    /\ call.pre.time_step + 1 - Len(node.queue) > 0

\* ------------------------------------------------------------ charge conservation
\* the last operation was the forward simulation of a DSRIFNode
DSRIFForward == call.op = "forward" /\ cfg.kind = "DSRIF"
\* the input the forward simulation of the last operation ran on
ForwardInput == node[call.w].inp
\* the sum of the inputs of element i over the steps 1..t
InputSoFar(inp, t, i) == SeqSum([u \in 1..t |-> inp[u][i]])
\* the number of steps among 1..t in which element i of spike_seq is not zero
SpikesSoFar(spike_seq, t, i) == Cardinality({u \in 1..t : spike_seq[u][i] # 0})
\* the soft-reset IFNode of the same v_threshold stepped over the first t steps of the same
\* input from the potential zero
SoftIF(t) ==
    IF_jit_eval_multi_step_forward_soft_reset(SubSeq(ForwardInput, 1, t),
                                              zeros_like(ForwardInput[1]), cfg.v_threshold)

\* C37: in the forward simulation of DSRIFNode, and in a soft-reset IFNode stepped from zero
\* potential, after every number of steps the sum of the inputs of an element so far equals
\* its membrane potential plus v_threshold times the number of spikes it has emitted.
C37_ChargeConserved ==
    DSRIFForward =>
        \A t \in DOMAIN ForwardInput : \A i \in Idx :
            /\ call.output[t][i] \in {0, cfg.v_threshold}
            /\ InputSoFar(ForwardInput, t, i) =
                   call.mem_potential[t][i]
                       + cfg.v_threshold * SpikesSoFar(call.output, t, i)
            /\ InputSoFar(ForwardInput, t, i) =
                   SoftIF(t).v[i] + cfg.v_threshold * SpikesSoFar(SoftIF(t).spike_seq, t, i)
\* a forward simulation in which an element fired at both steps and kept a potential that
\* is not zero, on a threshold that is not 1.; the soft-reset IFNode fired on it as well
C37_Witness ==
    /\ DSRIFForward /\ cfg.v_threshold # One
    /\ \E i \in Idx : /\ SpikesSoFar(call.output, 2, i) = 2
                      /\ call.mem_potential[2][i] # 0
                      /\ SpikesSoFar(SoftIF(2).spike_seq, 2, i) > 0

\* ------------------------------------------------------ the range of noise_step
\* C38 as stated: after reset_noise(n) the noise_step of a noisy neuron stays within
\* -1 .. n - 1 across any number of training-mode forward calls, so that every lookup
\* eps_seq[noise_step] addresses one of the n generated episodes.
C38_NoiseStepWithinEpisodes ==
    node.has_noise => (node.noise_step >= 0 - 1 /\ node.noise_step <= node.n - 1)

\* ------------------------------------------- inter-layer connection neurons: forward
\* A seventh state machine over the same variables follows one ILCIFNode, ILCLIFNode,
\* ILCCLIFNode or NoisyILCCLIFNode (is_training False) and the tensor its caller passes to
\* forward.  There cfg is the neuron (kind, T, v_threshold, v_reset, the parameters of
\* conn); node holds the caller's tensor x_seq and the memories v and c; call is the last
\* operation with what it found (pre), the spikes a forward call returned (y) and the
\* spikes the forward call before it returned on the same tensor (before).
MaxILCCalls == 3
\* act_dim = 1 and dec_pop_dim = the number of elements: conn = nn.Conv1d(1, N, N, groups=1)
\* maps the spikes of the N neurons to N values, out[o] = bias[o] + sum over j of
\* weight[o][0][j] * spike[j].  The parameters: weight 0.5 on the diagonal and -0.25 off it
\* with bias 0.1, or all of them zero
ILCConns == {[diag |-> Lit(500), off |-> Lit(-250), bias |-> Lit(100)],
             [diag |-> 0, off |-> 0, bias |-> 0]}
\* self.conn(spike.view(-1, act_dim, dec_pop_dim)).view(-1, out_pop_dim)
conn(c, spike) ==
    [o \in Idx |-> c.conn.bias + SeqSum([j \in Idx |->
        Mul(IF o = j THEN c.conn.diag ELSE c.conn.off, spike[j])])]
\* ILCIFNode(v_threshold=1.), ILCLIFNode(v_threshold=1.), ILCCLIFNode(v_threshold=0.5),
\* NoisyILCCLIFNode(is_training=False, T=2, v_threshold=1.), each with v_reset=0.
ILCConfigs ==
    {[kind |-> kd, T |-> 2, v_reset |-> 0, conn |-> cn,
      v_threshold |-> IF kd = "ILCCLIF" THEN Lit(500) ELSE One] :
        kd \in {"ILCIF", "ILCLIF", "ILCCLIF", "NoisyILCCLIF"}, cn \in ILCConns}
\* the tensors a caller passes: two or three steps
ILCInputs == {x_seq \in XSeqs : Len(x_seq) \in {2, 3}}

\* ILCBaseNode.init_tensor, ILCCLIFNode.init_tensor, NoisyILCCLIFNode.init_tensor
ILC_init_tensor(c, x) ==
    [v |-> [i \in DOMAIN x |-> c.v_reset], c |-> zeros_like(x)]
\* neuronal_charge of ILCIFNode, ILCLIFNode, ILCCLIFNode and NoisyILCCLIFNode
ILC_neuronal_charge(c, self, x) ==
    CASE c.kind = "ILCIF" -> [self EXCEPT !.v = [i \in Idx |-> self.v[i] + x[i]]]
      [] c.kind = "ILCLIF" ->
            [self EXCEPT !.v = [i \in Idx |-> Mul(self.v[i], v_decay) + x[i]]]
      [] OTHER ->
            [self EXCEPT !.c = [i \in Idx |-> Mul(self.c[i], c_decay) + x[i]],
                         !.v = [i \in Idx |-> Mul(self.v[i], v_decay)
                                              + (Mul(self.c[i], c_decay) + x[i])]]
\* ILCBaseNode.neuronal_fire on the charged memories
ILC_neuronal_fire(c, self) == [i \in Idx |-> heaviside(self.v[i] - c.v_threshold)]
\* ILCBaseNode.neuronal_reset with a float v_reset
ILC_neuronal_reset(c, self, spike) ==
    [self EXCEPT !.v = [i \in Idx |->
        Mul(One - spike[i], self.v[i]) + Mul(spike[i], c.v_reset)]]
\* the steps the loop of forward runs: x_seq.shape[0] in ILCBaseNode, self.T in
\* NoisyILCBaseNode
ILC_steps(c, x_seq) == IF c.kind = "NoisyILCCLIF" THEN c.T ELSE Len(x_seq)
\* if t < T - 1: x_seq[t + 1] = x_seq[t + 1] + self.conn(...): the assignment writes into
\* the tensor the caller passed (steps counted from 1 here)
ILC_connect(c, x_seq, t, spike) ==
    IF t < ILC_steps(c, x_seq)
    THEN [x_seq EXCEPT ![t + 1] = [i \in Idx |-> x_seq[t + 1][i] + conn(c, spike)[i]]]
    ELSE x_seq
RECURSIVE ILC_loop(_, _, _, _, _)
RECURSIVE ILC_step(_, _, _, _, _, _)
\* the loop of forward from step t on, spike_seq the spikes so far
ILC_loop(c, self, x_seq, t, spike_seq) ==
    IF t > ILC_steps(c, x_seq) THEN [self |-> self, x_seq |-> x_seq, y |-> spike_seq]
    ELSE ILC_step(c, ILC_neuronal_charge(c, self, x_seq[t]), x_seq, t, spike_seq,
                  ILC_neuronal_fire(c, ILC_neuronal_charge(c, self, x_seq[t])))
\* the rest of step t once the charge has left the memories charged and the fire has
\* returned spike
ILC_step(c, charged, x_seq, t, spike_seq, spike) ==
    ILC_loop(c, ILC_neuronal_reset(c, charged, spike), ILC_connect(c, x_seq, t, spike),
             t + 1, Append(spike_seq, spike))
\* ILCBaseNode.forward, and NoisyILCBaseNode.forward with is_training False: the
\* memories and the tensor x_seq it leaves, and the spikes it returns
ILC_forward(c, x_seq) == ILC_loop(c, ILC_init_tensor(c, x_seq[1]), x_seq, 1, <<>>)

ILCConstructed == [x_seq |-> <<>>, v |-> <<>>, c |-> <<>>]
InitILC ==
    /\ cfg \in ILCConfigs
    /\ node \in {[ILCConstructed EXCEPT !.x_seq = x_seq] : x_seq \in ILCInputs}
    /\ call = [op |-> "none", pre |-> ILCConstructed, y |-> <<>>, before |-> <<>>]
    /\ ncalls = 0

\* forward has returned r
ILCReturned(r) ==
    /\ node' = [x_seq |-> r.x_seq, v |-> r.self.v, c |-> r.self.c]
    /\ call' = [op |-> "forward", pre |-> node, y |-> r.y,
                before |-> IF call.op = "forward" THEN call.y ELSE <<>>]
    /\ ncalls' = ncalls + 1
    /\ UNCHANGED cfg
\* neuron(x_seq) on the tensor the caller holds
ILCForward ==
    /\ ncalls < MaxILCCalls
    /\ ILCReturned(ILC_forward(cfg, node.x_seq))
\* the caller takes another tensor
ILCNewInput(x_seq) ==
    /\ ncalls < MaxILCCalls /\ call.op = "forward"
    /\ node' = [node EXCEPT !.x_seq = x_seq]
    /\ call' = [op |-> "input", pre |-> node, y |-> <<>>, before |-> <<>>]
    /\ ncalls' = ncalls + 1
    /\ UNCHANGED cfg

NextILC ==
    \/ ILCForward
    \/ \E x_seq \in ILCInputs : ILCNewInput(x_seq)

SpecILC == InitILC /\ [][NextILC]_vars

\* C39 as stated: forward of an inter-layer-connection neuron does not modify the caller's
\* input sequence: after the call every x_seq[t] has the value it had before the call, and a
\* second call on the same sequence object returns what the first returned.
C39_ForwardLeavesInputAlone ==
    call.op = "forward" =>
        /\ node.x_seq = call.pre.x_seq
        /\ call.before # <<>> => call.y = call.before

============================================================================
